---- MODULE Spec2Model ----
(***************************************************************************)
(* A model of the lux-kernel core: the process manager and PIT timer       *)
(* (kernel/core/process.c, kernel/core/timer.c), the interrupt dispatcher  *)
(* (kernel/core/interrupt.c), the LUXFS filesystem (kernel/fs/fs.c) and    *)
(* the PS/2 keyboard driver (kernel/drivers/input/keyboard.c).             *)
(*                                                                         *)
(* Every public function is one action that models the whole call.  The    *)
(* variables named g_* are ghost variables: they record what a call was    *)
(* given and what it returned, and are never read by the modelled code.    *)
(***************************************************************************)
EXTENDS Integers, Sequences, FiniteSets, TLC

(***************************************************************************)
(* Bounds of the model.  The table sizes and integer widths of the kernel  *)
(* are scaled down; the value the source uses is given with each.          *)
(***************************************************************************)
\* process.c:13 MAX_PROCESSES is 16
MAX_PROCESSES == 2
\* pid and next_pid are uint32_t (process.c:18): pids are counted modulo this
PidWrap == 3
\* timer_ticks is uint32_t (timer.c:21): ticks are counted modulo this
TickWrap == 4
\* the largest argument given to process_sleep and process_update_sleep_times
MaxSleep == 2
\* interrupt.c:11 INTERRUPT_MAX_HANDLERS is 16
INTERRUPT_MAX_HANDLERS == 2
\* the handler functions a caller may subscribe are numbered 1 .. NumHandlers
NumHandlers == 2
\* the context pointers a caller may pass are 0 (null) .. MaxContext
MaxContext == 1

NULL == -1

VARIABLES
    \* process.c
    process_table,            \* [0..MAX_PROCESSES-1 -> PCB]
    process_count_active,
    next_pid,
    current_process,          \* a slot index, or NULL
    current_process_index,
    \* timer.c
    timer_ticks,
    timer_ticks_last_process_update,
    \* the heap behind malloc/free, as far as process stacks use it
    heap,                     \* the addresses malloc has handed out and free has not taken back
    \* ghosts of the process manager
    g_proc,                   \* the last call: what it was, its arguments and its result
    g_sleep,                  \* per slot: ticks still to elapse of the sleep its process asked for, or NULL
    cpu,                      \* the processor: the interrupt flag, and where a scheduler call made by
                              \* a process stands when the call is followed statement by statement
    g_runlog                  \* the latest run of bare process_schedule() calls: whether, when it began,
                              \* every live process was READY or the RUNNING current one, and the slot
                              \* each call left current (the last MAX_PROCESSES of them)

VARIABLES
    \* interrupt.c
    subscriptions,            \* [0..INTERRUPT_MAX_HANDLERS-1 -> subscription]
    dispatcher_ready,
    \* ghosts of the dispatcher
    g_intr,                   \* the last call: its arguments, its result, the handlers it invoked
    g_suborder                \* the ids subscribe returned and unsubscribe has not been given, oldest first

procVars == <<process_table, process_count_active, next_pid, current_process,
              current_process_index, timer_ticks, timer_ticks_last_process_update,
              heap, g_proc, g_sleep, g_runlog, cpu>>

intrVars == <<subscriptions, dispatcher_ready, g_intr, g_suborder>>

VARIABLES
    \* fs.c
    g_fs,                     \* struct luxfs_state: mounted, super, inodes, inode_bitmap, block_bitmap
    \* the ATA disk behind ata_pio_read / ata_pio_write, sectors LUXFS_START_LBA onwards
    disk,                     \* [meta: the superblock, bitmap and inode-table sectors, data: the data sectors]
    \* ghost of the filesystem
    g_fsop,                   \* the last call: its arguments, its result, facts of the state it started from
    g_fscalls,                \* the number of filesystem calls made so far
    g_fslog                   \* the calls that returned true, where a log is kept

fsVars == <<g_fs, disk, g_fsop, g_fscalls, g_fslog>>

VARIABLES
    \* keyboard.c
    keyboard,                 \* the statics: current_layout, the modifier flags, event_queue, event_head, ...
    \* the PS/2 controller: the scancodes it holds for the data port, oldest first
    ps2_buffer,
    \* ghosts of the keyboard
    g_kbd,                    \* the last call: its arguments, its result, the state it started from
    g_kbdq,                   \* the symbols produced and not yet handed out or dropped, oldest first
    g_kbdsteps,               \* the number of keyboard steps made so far
    \* shell.c
    shell,                    \* the interrupt flags, the subscription, the pending input, and where
                              \* shell_run stands
    \* a caller of keyboard_poll_event in normal context
    dequeue                   \* where it stands in keyboard_dequeue_event and what it holds in
                              \* registers and in *event

kbdVars == <<keyboard, ps2_buffer, g_kbd, g_kbdq, g_kbdsteps, shell, dequeue>>

vars == <<procVars, intrVars, fsVars, kbdVars>>

(***************************************************************************)
(* Process manager                                                         *)
(***************************************************************************)
Slots == 0 .. (MAX_PROCESSES - 1)

\* enum process_state; PROCESS_STATE_READY is the enumerator of value 0
PROCESS_STATE_READY    == "READY"
PROCESS_STATE_RUNNING  == "RUNNING"
PROCESS_STATE_SLEEPING == "SLEEPING"
PROCESS_STATE_STOPPED  == "STOPPED"

\* a PCB all of whose bytes are zero: pid 0, state READY (enumerator 0), stack NULL
ZeroedProcess ==
    [pid |-> 0, state |-> PROCESS_STATE_READY, stack |-> NULL, wake_time_ticks |-> 0]

\* the scheduler's data, passed through the functions that change it
ProcState ==
    [table   |-> process_table,
     count   |-> process_count_active,
     next    |-> next_pid,
     current |-> current_process,
     index   |-> current_process_index,
     heap    |-> heap]

\* the least element of a non-empty set of integers
MinOf(S) == CHOOSE x \in S : \A y \in S : x <= y

\* malloc: the lowest address not in use
HeapAlloc(h) == MinOf((1 .. (MAX_PROCESSES + 1)) \ h)

\* process_manager_init: memset(process_table, 0), counters reset
ProcessManagerInitState ==
    [table   |-> [i \in Slots |-> ZeroedProcess],
     count   |-> 0,
     next    |-> 1,
     current |-> NULL,
     index   |-> 0,
     heap    |-> {}]

\* the slot test of process_alloc's search loop
SlotIsEmpty(p) == p.state = PROCESS_STATE_STOPPED /\ p.pid = 0

\* process_alloc: [st, slot], slot = NULL on failure
process_alloc(st, mallocOk) ==
    IF st.count >= MAX_PROCESSES THEN [st |-> st, slot |-> NULL]
    ELSE LET free == {i \in Slots : SlotIsEmpty(st.table[i])} IN
         IF free = {} THEN [st |-> st, slot |-> NULL]
         ELSE IF ~mallocOk THEN [st |-> st, slot |-> NULL]
         ELSE LET i     == MinOf(free)
                  stack == HeapAlloc(st.heap)
              IN [st |-> [st EXCEPT
                            !.table[i] = [pid |-> st.next,
                                          state |-> PROCESS_STATE_READY,
                                          stack |-> stack,
                                          wake_time_ticks |-> 0],
                            !.next  = (st.next + 1) % PidWrap,
                            !.count = st.count + 1,
                            !.heap  = st.heap \cup {stack}],
                  slot |-> i]

\* process_create: [st, ret]
process_create(st, entryNull, mallocOk) ==
    IF entryNull THEN [st |-> st, ret |-> -1]
    ELSE LET a == process_alloc(st, mallocOk) IN
         IF a.slot = NULL THEN [st |-> a.st, ret |-> -1]
         ELSE [st |-> a.st, ret |-> a.st.table[a.slot].pid]

\* process_free that takes the stack and the pid but leaves the state field
process_free_keeping_state(st, i) ==
    IF i = NULL \/ st.table[i].pid = 0 THEN st
    ELSE [st EXCEPT
            !.heap = IF st.table[i].stack # NULL THEN st.heap \ {st.table[i].stack} ELSE st.heap,
            !.table[i] = [st.table[i] EXCEPT !.stack = NULL, !.pid = 0],
            !.count = IF st.count > 0 THEN st.count - 1 ELSE st.count]

\* process_free
process_free(st, i) ==
    IF i = NULL \/ st.table[i].pid = 0 THEN st
    ELSE [st EXCEPT
            !.heap = IF st.table[i].stack # NULL THEN st.heap \ {st.table[i].stack} ELSE st.heap,
            !.table[i] = [st.table[i] EXCEPT !.stack = NULL,
                                             !.pid = 0,
                                             !.state = PROCESS_STATE_STOPPED],
            !.count = IF st.count > 0 THEN st.count - 1 ELSE st.count]

\* the circular order of the first scan: start, start+1, ..., wrapping
ScanOrder(start) == [k \in 1 .. MAX_PROCESSES |-> (start + k - 1) % MAX_PROCESSES]

\* the first index of the sequence whose slot satisfies the test, or NULL
FirstIn(order, Test(_)) ==
    LET hits == {k \in 1 .. Len(order) : Test(order[k])} IN
    IF hits = {} THEN NULL ELSE order[MinOf(hits)]

\* process_schedule with the first scan started at the last-scheduled slot itself
process_schedule_from_last(st) ==
    IF st.count = 0 THEN [st EXCEPT !.current = NULL]
    ELSE
    LET IsReady(i) == st.table[i].pid # 0 /\ st.table[i].state = PROCESS_STATE_READY
        found == FirstIn(ScanOrder(st.index), IsReady)
    IN
    IF found # NULL THEN
        [st EXCEPT !.table[found].state = PROCESS_STATE_RUNNING,
                   !.index = found,
                   !.current = found]
    ELSE IF st.current # NULL /\ st.table[st.current].state = PROCESS_STATE_RUNNING THEN st
    ELSE
    LET NotStopped(i) == st.table[i].pid # 0 /\ st.table[i].state # PROCESS_STATE_STOPPED
        any == FirstIn(ScanOrder(0), NotStopped)
    IN
    IF any # NULL THEN
        [st EXCEPT !.table[any].state = PROCESS_STATE_RUNNING,
                   !.index = any,
                   !.current = any]
    ELSE st

\* process_schedule
process_schedule(st) ==
    IF st.count = 0 THEN [st EXCEPT !.current = NULL]
    ELSE
    LET start == (st.index + 1) % MAX_PROCESSES
        IsReady(i) == st.table[i].pid # 0 /\ st.table[i].state = PROCESS_STATE_READY
        found == FirstIn(ScanOrder(start), IsReady)
    IN
    IF found # NULL THEN
        \* the context switch happens when next_process differs from current_process
        [st EXCEPT !.table[found].state = PROCESS_STATE_RUNNING,
                   !.index = found,
                   !.current = found]
    ELSE IF st.current # NULL /\ st.table[st.current].state = PROCESS_STATE_RUNNING THEN st
    ELSE
    LET NotStopped(i) == st.table[i].pid # 0 /\ st.table[i].state # PROCESS_STATE_STOPPED
        any == FirstIn(ScanOrder(0), NotStopped)
    IN
    IF any # NULL THEN
        [st EXCEPT !.table[any].state = PROCESS_STATE_RUNNING,
                   !.index = any,
                   !.current = any]
    ELSE st

\* process_schedule called in state before and leaving state after reached
\* process_context_switch: next_process was set and differed from current_process
\* (a next_process that is set becomes current; one that is not leaves current
\* as it was, or NULL)
ContextSwitched(before, after) ==
    after.current # NULL /\ after.current # before.current

\* process_exit of a current process, up to its call of process_schedule
ExitEntry(st) == [process_free(st, st.current) EXCEPT !.current = NULL]

\* process_exit
process_exit(st) ==
    IF st.current = NULL THEN st
    ELSE process_schedule(ExitEntry(st))

\* process_sleep of a current process, up to its call of process_schedule
SleepEntry(st, ticks) ==
    [st EXCEPT !.table[st.current].state = PROCESS_STATE_SLEEPING,
               !.table[st.current].wake_time_ticks = ticks]

\* process_sleep
process_sleep(st, ticks) ==
    IF st.current = NULL THEN st
    ELSE process_schedule(SleepEntry(st, ticks))

\* process_yield up to its call of process_schedule
YieldEntry(st) ==
    IF st.current # NULL /\ st.table[st.current].state = PROCESS_STATE_RUNNING
    THEN [st EXCEPT !.table[st.current].state = PROCESS_STATE_READY]
    ELSE st

\* process_yield that leaves its caller RUNNING
process_yield_without_demotion(st) == process_schedule(st)

\* process_yield
process_yield(st) == process_schedule(YieldEntry(st))

\* process_get_by_pid: the first slot whose pid field equals pid, or NULL
process_get_by_pid(st, pid) ==
    LET hits == {i \in Slots : st.table[i].pid = pid} IN
    IF hits = {} THEN NULL ELSE MinOf(hits)

\* process_kill: [st, ret]
process_kill(st, pid) ==
    LET proc == process_get_by_pid(st, pid) IN
    IF proc = NULL THEN [st |-> st, ret |-> FALSE]
    ELSE IF proc = st.current THEN [st |-> process_exit(st), ret |-> TRUE]
    ELSE [st |-> process_free(st, proc), ret |-> TRUE]

\* process_update_sleep_times
process_update_sleep_times(st, ticks_elapsed) ==
    [st EXCEPT !.table = [i \in Slots |->
        IF st.table[i].pid # 0 /\ st.table[i].state = PROCESS_STATE_SLEEPING
        THEN IF st.table[i].wake_time_ticks <= ticks_elapsed
             THEN [st.table[i] EXCEPT !.wake_time_ticks = 0, !.state = PROCESS_STATE_READY]
             ELSE [st.table[i] EXCEPT !.wake_time_ticks = @ - ticks_elapsed]
        ELSE st.table[i]]]

(***************************************************************************)
(* Ghost bookkeeping of the process manager                                *)
(***************************************************************************)
Live(table) == {i \in Slots : table[i].pid # 0}

\* the slots that hold a process: process_alloc gave them a stack and
\* process_free has not taken it back
Occupied(table) == {i \in Slots : table[i].stack # NULL}

\* a sleep request ends with its process: a slot whose pid changed has none
SleepAfter(before, after, gs) ==
    [i \in Slots |-> IF after[i].pid # before[i].pid \/ after[i].pid = 0 THEN NULL ELSE gs[i]]

\* the ticks a request has left after an advance of e ticks; a request that has
\* run out is dropped
SleepAdvance(gs, e) ==
    [i \in Slots |-> IF gs[i] = NULL THEN NULL
                     ELSE IF gs[i] <= e THEN NULL ELSE gs[i] - e]

\* the log of a run of schedule calls that begins in the given state
RunStart(st) ==
    [fair  |-> \A i \in Live(st.table) :
                   \/ st.table[i].state = PROCESS_STATE_READY
                   \/ st.table[i].state = PROCESS_STATE_RUNNING /\ st.current = i,
     picks |-> << >>]

\* The run of consecutive process_yield calls the call that leads from st to
\* after belongs to: whether, when the run began, every live process was READY
\* or the RUNNING current one, and the slots the calls of the run left current
\* (the last MAX_PROCESSES + 1 of them).
YieldRun(st, after) ==
    LET begun == IF g_proc.op = "yield" THEN g_proc.run ELSE RunStart(st) IN
    [begun EXCEPT !.picks = IF Len(@) <= MAX_PROCESSES THEN Append(@, after.current)
                            ELSE Append(Tail(@), after.current)]

\* what a call records of the process_schedule it made: the state the
\* scheduler was entered in, and whether it reached process_context_switch
Scheduled(entry, after, record) ==
    [k \in DOMAIN record \cup {"before", "switched"} |->
        IF k = "before" THEN [table |-> entry.table, current |-> entry.current,
                              index |-> entry.index]
        ELSE IF k = "switched" THEN ContextSwitched(entry, after)
        ELSE record[k]]

SetProc(st) ==
    /\ process_table' = st.table
    /\ process_count_active' = st.count
    /\ next_pid' = st.next
    /\ current_process' = st.current
    /\ current_process_index' = st.index
    /\ heap' = st.heap

(***************************************************************************)
(* Actions of the process manager and the timer                            *)
(***************************************************************************)
ProcessManagerInit ==
    /\ SetProc(ProcessManagerInitState)
    /\ g_proc' = [op |-> "init"]
    /\ g_sleep' = [i \in Slots |-> NULL]
    /\ g_runlog' = RunStart(ProcessManagerInitState)
    /\ UNCHANGED <<timer_ticks, timer_ticks_last_process_update>>

ProcessCreate(entryNull, mallocOk) ==
    LET r == process_create(ProcState, entryNull, mallocOk) IN
    /\ SetProc(r.st)
    /\ g_proc' = [op |-> "create", entryNull |-> entryNull, mallocOk |-> mallocOk,
                  liveBefore |-> Cardinality(Live(process_table)), ret |-> r.ret]
    /\ g_sleep' = SleepAfter(process_table, r.st.table, g_sleep)
    /\ g_runlog' = RunStart(r.st)
    /\ UNCHANGED <<timer_ticks, timer_ticks_last_process_update>>

ProcessExit ==
    LET st == process_exit(ProcState) IN
    /\ SetProc(st)
    /\ g_proc' = IF current_process = NULL THEN [op |-> "exit", caller |-> NULL]
                 ELSE Scheduled(ExitEntry(ProcState), st,
                                [op |-> "exit", caller |-> current_process,
                                 pid |-> process_table[current_process].pid,
                                 stack |-> process_table[current_process].stack])
    /\ g_sleep' = SleepAfter(process_table, st.table, g_sleep)
    /\ g_runlog' = RunStart(st)
    /\ UNCHANGED <<timer_ticks, timer_ticks_last_process_update>>

ProcessSleep(ticks) ==
    LET st == process_sleep(ProcState, ticks) IN
    /\ SetProc(st)
    /\ g_proc' = IF current_process = NULL THEN [op |-> "sleep"]
                 ELSE Scheduled(SleepEntry(ProcState, ticks), st, [op |-> "sleep"])
    /\ g_sleep' = IF current_process = NULL THEN g_sleep
                  ELSE [g_sleep EXCEPT ![current_process] = IF ticks > 0 THEN ticks ELSE NULL]
    /\ g_runlog' = RunStart(st)
    /\ UNCHANGED <<timer_ticks, timer_ticks_last_process_update>>

ProcessYield ==
    LET st == process_yield(ProcState) IN
    /\ SetProc(st)
    /\ g_proc' = Scheduled(YieldEntry(ProcState), st,
                           [op |-> "yield", run |-> YieldRun(ProcState, st)])
    /\ g_runlog' = RunStart(st)
    /\ UNCHANGED <<g_sleep, timer_ticks, timer_ticks_last_process_update>>

\* what process_kill(pid) is called on: the slot process_get_by_pid finds (NULL:
\* none) and that slot's fields before the call
KillVictim(st, pid) ==
    LET proc == process_get_by_pid(st, pid) IN
    IF proc = NULL
    THEN [slot |-> NULL, pid |-> 0, state |-> PROCESS_STATE_STOPPED, stack |-> NULL,
          current |-> FALSE]
    ELSE [slot |-> proc, pid |-> st.table[proc].pid, state |-> st.table[proc].state,
          stack |-> st.table[proc].stack, current |-> proc = st.current]

ProcessKill(pid) ==
    LET r == process_kill(ProcState, pid) IN
    /\ SetProc(r.st)
    /\ g_proc' = [op |-> "kill", pid |-> pid, ret |-> r.ret,
                  victim |-> KillVictim(ProcState, pid),
                  occupiedBefore |-> Occupied(process_table),
                  unchanged |-> r.st = ProcState]
    /\ g_sleep' = SleepAfter(process_table, r.st.table, g_sleep)
    /\ g_runlog' = RunStart(r.st)
    /\ UNCHANGED <<timer_ticks, timer_ticks_last_process_update>>

\* a bare call of process_schedule()
ProcessSchedule ==
    LET st == process_schedule(ProcState) IN
    /\ SetProc(st)
    /\ g_proc' = Scheduled(ProcState, st, [op |-> "schedule"])
    /\ g_runlog' = [g_runlog EXCEPT !.picks =
                        IF Len(@) < MAX_PROCESSES THEN Append(@, st.current)
                        ELSE Append(Tail(@), st.current)]
    /\ UNCHANGED <<g_sleep, timer_ticks, timer_ticks_last_process_update>>

\* a bare call of process_update_sleep_times(ticks_elapsed)
ProcessUpdateSleepTimes(ticks_elapsed) ==
    LET st == process_update_sleep_times(ProcState, ticks_elapsed) IN
    /\ SetProc(st)
    /\ g_proc' = [op |-> "update"]
    /\ g_sleep' = SleepAdvance(g_sleep, ticks_elapsed)
    /\ g_runlog' = RunStart(st)
    /\ UNCHANGED <<timer_ticks, timer_ticks_last_process_update>>

\* timer_irq_handler
TimerIrq ==
    LET ticks   == (timer_ticks + 1) % TickWrap
        elapsed == (ticks - timer_ticks_last_process_update) % TickWrap
    IN
    /\ timer_ticks' = ticks
    /\ IF elapsed > 0
       THEN LET st == process_schedule(process_update_sleep_times(ProcState, elapsed)) IN
            /\ SetProc(st)
            /\ timer_ticks_last_process_update' = ticks
            /\ g_sleep' = SleepAdvance(g_sleep, elapsed)
            /\ g_runlog' = RunStart(st)
       ELSE /\ UNCHANGED <<process_table, process_count_active, next_pid, current_process,
                           current_process_index, heap, g_sleep>>
            /\ UNCHANGED timer_ticks_last_process_update
            /\ g_runlog' = RunStart(ProcState)
    /\ g_proc' = IF elapsed > 0
                 THEN LET entry == process_update_sleep_times(ProcState, elapsed) IN
                      Scheduled(entry, process_schedule(entry), [op |-> "tick"])
                 ELSE [op |-> "tick"]

(***************************************************************************)
(* Scheduler calls followed statement by statement, with the timer         *)
(* interrupt free to arrive between the statements                         *)
(***************************************************************************)
\* Where the scheduler call of a process stands: PC_IDLE, no call is in
\* progress; PC_MARKED, the call has made its own changes (process.c:142-143,
\* 158-159, 170-172) and process_schedule is about to run; PC_SELECTED,
\* process_schedule has chosen next_process (process.c:252-277) and has not yet
\* assigned current_process and switched (process.c:280-284).
PC_IDLE     == "idle"
PC_MARKED   == "marked"
PC_SELECTED == "selected"

\* kernel() executes sti before the timer is programmed and before any process
\* runs (kernel.c:44), and a new process starts with eflags 0x200 (process.c:84);
\* no statement of process.c or timer.c clears the flag.  tick_at: where a
\* scheduler call stood when the last timer interrupt arrived.
\* in_handler: the contexts (slots, or NULL for the code that runs while no
\* process is current) that process_schedule switched away from inside
\* timer_irq_handler, which have timer.c:39 still to execute when they are
\* switched back to.  surplus: the sum of the ticks_elapsed arguments given
\* to process_update_sleep_times less the number of timer interrupts handled.
CpuAtBoot ==
    [interrupts_enabled |-> TRUE, pc |-> PC_IDLE, next_process |-> NULL, tick_at |-> PC_IDLE,
     in_handler |-> {}, surplus |-> 0]

\* the statements of a scheduler call before its process_schedule()
EnterSchedule(st, op) ==
    /\ cpu.pc = PC_IDLE
    /\ SetProc(st)
    /\ g_proc' = [op |-> op]
    /\ g_sleep' = SleepAfter(process_table, st.table, g_sleep)
    /\ g_runlog' = RunStart(st)
    /\ cpu' = [cpu EXCEPT !.pc = PC_MARKED]
    /\ UNCHANGED <<timer_ticks, timer_ticks_last_process_update>>

\* process_yield up to its call of process_schedule
YieldBegin ==
    EnterSchedule(YieldEntry(ProcState), "yield")

\* process_sleep up to its call of process_schedule
SleepBegin(ticks) ==
    /\ current_process # NULL
    /\ EnterSchedule(SleepEntry(ProcState, ticks), "sleep")

\* process_exit, or process_kill of the current process, up to process_schedule
ExitBegin ==
    /\ current_process # NULL
    /\ EnterSchedule(ExitEntry(ProcState), "exit")

\* process_schedule up to the test of next_process (process.c:239-277)
ScheduleSelect ==
    LET after == process_schedule(ProcState) IN
    /\ cpu.pc = PC_MARKED
    /\ SetProc([after EXCEPT !.current = IF process_count_active = 0 THEN NULL
                                         ELSE current_process])
    /\ cpu' = IF ContextSwitched(ProcState, after)
              THEN [cpu EXCEPT !.pc = PC_SELECTED, !.next_process = after.current]
              ELSE [cpu EXCEPT !.pc = PC_IDLE]
    /\ g_proc' = [op |-> "select"]
    /\ UNCHANGED <<g_sleep, g_runlog, timer_ticks, timer_ticks_last_process_update>>

\* current_process = next_process; process_context_switch(...) (process.c:280-284)
ScheduleSwitch ==
    /\ cpu.pc = PC_SELECTED
    /\ current_process' = cpu.next_process
    /\ cpu' = [cpu EXCEPT !.pc = PC_IDLE, !.next_process = NULL]
    /\ g_proc' = [op |-> "switch"]
    /\ UNCHANGED <<process_table, process_count_active, next_pid, current_process_index,
                   heap, g_sleep, g_runlog, timer_ticks, timer_ticks_last_process_update>>

\* IRQ0: the handler runs whenever the interrupt flag lets the interrupt in
TimerInterrupt ==
    /\ cpu.interrupts_enabled
    /\ TimerIrq
    /\ cpu' = [cpu EXCEPT !.tick_at = cpu.pc]

\* one scheduler call of a process at a time, the timer interrupt at any time
PreemptNext ==
    \/ \E mallocOk \in BOOLEAN :
          /\ cpu.pc = PC_IDLE
          /\ ProcessCreate(FALSE, mallocOk)
          /\ UNCHANGED <<cpu, intrVars, fsVars, kbdVars>>
    \/ YieldBegin /\ UNCHANGED <<intrVars, fsVars, kbdVars>>
    \/ \E ticks \in 0 .. MaxSleep : SleepBegin(ticks) /\ UNCHANGED <<intrVars, fsVars, kbdVars>>
    \/ ExitBegin /\ UNCHANGED <<intrVars, fsVars, kbdVars>>
    \/ ScheduleSelect /\ UNCHANGED <<intrVars, fsVars, kbdVars>>
    \/ ScheduleSwitch /\ UNCHANGED <<intrVars, fsVars, kbdVars>>
    \/ TimerInterrupt /\ UNCHANGED <<intrVars, fsVars, kbdVars>>

(***************************************************************************)
(* The timer interrupt handler with the context switch inside it: a        *)
(* process_schedule that switches does not come back to its caller until   *)
(* the caller is switched to again (process.h:146-155)                     *)
(***************************************************************************)
\* the handler is followed while the surplus is below MaxSurplus
MaxSurplus == 2

\* The process a switch has made current goes on where it was switched away
\* from: inside timer_irq_handler it executes
\* timer_ticks_last_process_update = timer_ticks (timer.c:39) and returns from
\* the interrupt.  after: the scheduler state the call leaves; suspended: the
\* contexts waiting inside the handler; ticks: timer_ticks.
ResumeSwitchedTo(switched, after, suspended, ticks) ==
    LET resumed == switched /\ after.current \in suspended IN
    /\ cpu' = [cpu EXCEPT !.in_handler =
                   {c \in suspended \ {after.current} :
                        c = NULL \/ after.table[c].stack # NULL}]
    /\ timer_ticks_last_process_update' =
           IF resumed THEN ticks ELSE timer_ticks_last_process_update

\* timer_irq_handler, up to the point where process_schedule switches away
TimerHandler ==
    LET ticks   == (timer_ticks + 1) % TickWrap
        elapsed == (ticks - timer_ticks_last_process_update) % TickWrap
        entry   == process_update_sleep_times(ProcState, elapsed)
        st      == process_schedule(entry)
        away    == ContextSwitched(entry, st)
        suspended == IF away THEN cpu.in_handler \cup {entry.current} ELSE cpu.in_handler
        resumed == away /\ st.current \in cpu.in_handler
    IN
    /\ cpu.surplus < MaxSurplus
    /\ (timer_ticks - timer_ticks_last_process_update) % TickWrap < TickWrap - 1
    /\ timer_ticks' = ticks
    /\ IF elapsed > 0
       THEN /\ SetProc(st)
            /\ timer_ticks_last_process_update' =
                   IF ~away \/ resumed THEN ticks ELSE timer_ticks_last_process_update
            /\ cpu' = [cpu EXCEPT
                          !.in_handler = {c \in suspended \ {st.current} :
                                             c = NULL \/ st.table[c].stack # NULL},
                          !.surplus = @ + elapsed - 1]
            /\ g_proc' = Scheduled(entry, st, [op |-> "tick", elapsed |-> elapsed])
            /\ g_sleep' = SleepAdvance(g_sleep, elapsed)
            /\ g_runlog' = RunStart(st)
       ELSE /\ UNCHANGED <<process_table, process_count_active, next_pid, current_process,
                           current_process_index, heap, g_sleep>>
            /\ UNCHANGED timer_ticks_last_process_update
            /\ cpu' = [cpu EXCEPT !.surplus = @ - 1]
            /\ g_proc' = [op |-> "tick", elapsed |-> elapsed]
            /\ g_runlog' = RunStart(ProcState)

\* process_yield by the current process, and what the process switched to goes on with
YieldAndResume ==
    LET entry == YieldEntry(ProcState)
        st    == process_schedule(entry)
    IN
    /\ SetProc(st)
    /\ ResumeSwitchedTo(ContextSwitched(entry, st), st, cpu.in_handler, timer_ticks)
    /\ g_proc' = Scheduled(entry, st, [op |-> "yield", run |-> YieldRun(ProcState, st)])
    /\ g_runlog' = RunStart(st)
    /\ UNCHANGED <<g_sleep, timer_ticks>>

\* process_sleep by the current process, and what the process switched to goes on with
SleepAndResume(ticks) ==
    LET entry == SleepEntry(ProcState, ticks)
        st    == process_schedule(entry)
    IN
    /\ current_process # NULL
    /\ SetProc(st)
    /\ ResumeSwitchedTo(ContextSwitched(entry, st), st, cpu.in_handler, timer_ticks)
    /\ g_proc' = Scheduled(entry, st, [op |-> "sleep"])
    /\ g_sleep' = [g_sleep EXCEPT ![current_process] = IF ticks > 0 THEN ticks ELSE NULL]
    /\ g_runlog' = RunStart(st)
    /\ UNCHANGED timer_ticks

\* process_exit by the current process, and what the process switched to goes on with
ExitAndResume ==
    LET entry == ExitEntry(ProcState)
        st    == process_schedule(entry)
    IN
    /\ current_process # NULL
    /\ SetProc(st)
    /\ ResumeSwitchedTo(ContextSwitched(entry, st), st, cpu.in_handler, timer_ticks)
    /\ g_proc' = Scheduled(entry, st,
                           [op |-> "exit", caller |-> current_process,
                            pid |-> process_table[current_process].pid,
                            stack |-> process_table[current_process].stack])
    /\ g_sleep' = SleepAfter(process_table, st.table, g_sleep)
    /\ g_runlog' = RunStart(st)
    /\ UNCHANGED timer_ticks

\* creates, the calls by which a process gives up the processor, and the timer
TimerNext ==
    \/ \E mallocOk \in BOOLEAN :
          /\ cpu.surplus <= MaxSurplus
          /\ ProcessCreate(FALSE, mallocOk)
          /\ UNCHANGED <<cpu, intrVars, fsVars, kbdVars>>
    \/ TimerHandler /\ UNCHANGED <<intrVars, fsVars, kbdVars>>
    \/ YieldAndResume /\ UNCHANGED <<intrVars, fsVars, kbdVars>>
    \/ \E ticks \in 0 .. MaxSleep : SleepAndResume(ticks) /\ UNCHANGED <<intrVars, fsVars, kbdVars>>
    \/ ExitAndResume /\ UNCHANGED <<intrVars, fsVars, kbdVars>>

\* the calls of the process manager and the timer interrupt; the dispatcher and
\* the filesystem are left alone
ProcNext ==
    \/ ProcessManagerInit /\ UNCHANGED <<cpu, intrVars, fsVars, kbdVars>>
    \/ \E entryNull \in BOOLEAN, mallocOk \in BOOLEAN :
          ProcessCreate(entryNull, mallocOk) /\ UNCHANGED <<cpu, intrVars, fsVars, kbdVars>>
    \/ ProcessExit /\ UNCHANGED <<cpu, intrVars, fsVars, kbdVars>>
    \/ \E ticks \in 0 .. MaxSleep : ProcessSleep(ticks) /\ UNCHANGED <<cpu, intrVars, fsVars, kbdVars>>
    \/ ProcessYield /\ UNCHANGED <<cpu, intrVars, fsVars, kbdVars>>
    \/ \E pid \in 0 .. (PidWrap - 1) : ProcessKill(pid) /\ UNCHANGED <<cpu, intrVars, fsVars, kbdVars>>
    \/ ProcessSchedule /\ UNCHANGED <<cpu, intrVars, fsVars, kbdVars>>
    \/ \E e \in 1 .. MaxSleep :
          ProcessUpdateSleepTimes(e) /\ UNCHANGED <<cpu, intrVars, fsVars, kbdVars>>
    \/ TimerIrq /\ UNCHANGED <<cpu, intrVars, fsVars, kbdVars>>

\* the state of the statics at load time, which is also what
\* process_manager_init and pit_init leave
ProcInit ==
    /\ process_table = ProcessManagerInitState.table
    /\ process_count_active = 0
    /\ next_pid = 1
    /\ current_process = NULL
    /\ current_process_index = 0
    /\ heap = {}
    /\ timer_ticks = 0
    /\ timer_ticks_last_process_update = 0
    /\ g_proc = [op |-> "init"]
    /\ g_sleep = [i \in Slots |-> NULL]
    /\ g_runlog = [fair |-> TRUE, picks |-> << >>]
    /\ cpu = CpuAtBoot

(***************************************************************************)
(* Interrupt dispatcher                                                    *)
(***************************************************************************)
HandlerIds == 0 .. (INTERRUPT_MAX_HANDLERS - 1)

\* enum interrupt_signal (interrupt.h:15-18)
INTERRUPT_SIGNAL_CTRL_C == 0
INTERRUPT_SIGNAL_MAX == INTERRUPT_SIGNAL_CTRL_C + 1

\* a slot as interrupt_dispatcher_init leaves it, which is also a slot of zero bytes
ClearedSubscription ==
    [signal |-> INTERRUPT_SIGNAL_CTRL_C, handler |-> 0, context |-> 0, active |-> FALSE]

IntrState == [subs |-> subscriptions, ready |-> dispatcher_ready]

\* interrupt_dispatcher_init
interrupt_dispatcher_init(st) ==
    IF st.ready THEN st
    ELSE [subs |-> [i \in HandlerIds |-> ClearedSubscription], ready |-> TRUE]

\* interrupt_subscribe taking slot 0 again when no slot is inactive
interrupt_subscribe_over_full_table(st, signal, handler, context) ==
    IF handler = 0 \/ signal >= INTERRUPT_SIGNAL_MAX THEN [st |-> st, ret |-> -1]
    ELSE LET free == {i \in HandlerIds : ~st.subs[i].active}
             i == IF free = {} THEN 0 ELSE MinOf(free) IN
         [st |-> [st EXCEPT !.subs[i] = [signal |-> signal, handler |-> handler,
                                         context |-> context, active |-> TRUE]],
          ret |-> i]

\* interrupt_subscribe: [st, ret]; handler 0 is the null pointer
interrupt_subscribe(st, signal, handler, context) ==
    IF handler = 0 \/ signal >= INTERRUPT_SIGNAL_MAX THEN [st |-> st, ret |-> -1]
    ELSE LET free == {i \in HandlerIds : ~st.subs[i].active} IN
         IF free = {} THEN [st |-> st, ret |-> -1]
         ELSE LET i == MinOf(free) IN
              [st |-> [st EXCEPT !.subs[i] = [signal |-> signal, handler |-> handler,
                                              context |-> context, active |-> TRUE]],
               ret |-> i]

\* interrupt_unsubscribe: [st, ret]
interrupt_unsubscribe(st, id) ==
    IF id < 0 \/ id >= INTERRUPT_MAX_HANDLERS THEN [st |-> st, ret |-> FALSE]
    ELSE [st |-> [st EXCEPT !.subs[id].active = FALSE,
                            !.subs[id].handler = 0,
                            !.subs[id].context = 0],
          ret |-> TRUE]

\* the loop of interrupt_raise from slot i on: the calls it makes, in order
RECURSIVE RaiseFrom(_, _, _)
RaiseFrom(subs, signal, i) ==
    IF i >= INTERRUPT_MAX_HANDLERS THEN << >>
    ELSE IF ~subs[i].active \/ subs[i].signal # signal THEN RaiseFrom(subs, signal, i + 1)
    ELSE <<[slot |-> i, handler |-> subs[i].handler, signal |-> signal,
            context |-> subs[i].context]>> \o RaiseFrom(subs, signal, i + 1)

\* interrupt_raise with the loop started one slot late
interrupt_raise_from_slot_1(st, signal) ==
    IF signal >= INTERRUPT_SIGNAL_MAX THEN [st |-> st, calls |-> << >>]
    ELSE LET st1 == IF ~st.ready THEN interrupt_dispatcher_init(st) ELSE st IN
         [st |-> st1, calls |-> RaiseFrom(st1.subs, signal, 1)]

\* interrupt_raise: [st, calls]
interrupt_raise(st, signal) ==
    IF signal >= INTERRUPT_SIGNAL_MAX THEN [st |-> st, calls |-> << >>]
    ELSE LET st1 == IF ~st.ready THEN interrupt_dispatcher_init(st) ELSE st IN
         [st |-> st1, calls |-> RaiseFrom(st1.subs, signal, 0)]

\* a sequence without the entries equal to x
RECURSIVE Without(_, _)
Without(seq, x) ==
    IF seq = << >> THEN << >>
    ELSE IF Head(seq) = x THEN Without(Tail(seq), x)
    ELSE <<Head(seq)>> \o Without(Tail(seq), x)

SetIntr(st) ==
    /\ subscriptions' = st.subs
    /\ dispatcher_ready' = st.ready

InterruptDispatcherInit ==
    /\ SetIntr(interrupt_dispatcher_init(IntrState))
    /\ g_intr' = [op |-> "init"]
    /\ UNCHANGED g_suborder

InterruptSubscribe(signal, handler, context) ==
    LET r == interrupt_subscribe(IntrState, signal, handler, context) IN
    /\ SetIntr(r.st)
    /\ g_intr' = [op |-> "subscribe", signal |-> signal, handler |-> handler,
                  context |-> context, before |-> subscriptions, ret |-> r.ret]
    /\ g_suborder' = IF r.ret >= 0 THEN Append(Without(g_suborder, r.ret), r.ret)
                     ELSE g_suborder

InterruptUnsubscribe(id) ==
    LET r == interrupt_unsubscribe(IntrState, id) IN
    /\ SetIntr(r.st)
    /\ g_intr' = [op |-> "unsubscribe", id |-> id, ret |-> r.ret]
    /\ g_suborder' = Without(g_suborder, id)

InterruptRaise(signal) ==
    LET r == interrupt_raise(IntrState, signal) IN
    /\ SetIntr(r.st)
    /\ g_intr' = [op |-> "raise", signal |-> signal, before |-> subscriptions,
                  readyBefore |-> dispatcher_ready, order |-> g_suborder,
                  calls |-> r.calls]
    /\ UNCHANGED g_suborder

\* the calls of the dispatcher; the process manager and the filesystem are left
\* alone
IntrNext ==
    \/ InterruptDispatcherInit /\ UNCHANGED <<procVars, fsVars, kbdVars>>
    \/ \E signal \in 0 .. INTERRUPT_SIGNAL_MAX, handler \in 0 .. NumHandlers,
          context \in 0 .. MaxContext :
          InterruptSubscribe(signal, handler, context) /\ UNCHANGED <<procVars, fsVars, kbdVars>>
    \/ \E id \in -1 .. INTERRUPT_MAX_HANDLERS :
          InterruptUnsubscribe(id) /\ UNCHANGED <<procVars, fsVars, kbdVars>>
    \/ \E signal \in 0 .. INTERRUPT_SIGNAL_MAX :
          InterruptRaise(signal) /\ UNCHANGED <<procVars, fsVars, kbdVars>>

\* the statics at load time: all bytes zero, the dispatcher not yet initialised
IntrInit ==
    /\ subscriptions = [i \in HandlerIds |-> ClearedSubscription]
    /\ dispatcher_ready = FALSE
    /\ g_intr = [op |-> "init"]
    /\ g_suborder = << >>

(***************************************************************************)
(* LUXFS (kernel/fs/fs.c)                                                  *)
(*                                                                         *)
(* The C functions work on the global g_fs and on the disk; here each is   *)
(* an operator from a state s to a record holding the state it leaves, its *)
(* return value (ok) and its out-parameters.  s carries the fields of g_fs *)
(* (mounted, super, inodes, inode_bitmap, block_bitmap), the disk, and the *)
(* fate of the sector transfers of the call in progress:                   *)
(*   n       transfers (reads and writes) issued so far                    *)
(*   failAt  the transfer the device fails (NoFail: none)                  *)
(*   failAlso  a second transfer the device fails (NoFail: none)           *)
(*   w       sector writes the device accepted so far                      *)
(*   cut     power is lost after this many accepted writes (NoCrash: not   *)
(*           at all); a write after that point does not reach the disk     *)
(* A sector is modelled by its decoded content; a cell of a data sector    *)
(* holds one byte of a file, one character of a name, or the inode number  *)
(* of a directory record (four bytes in the source, one cell here).        *)
(***************************************************************************)
\* ata.h:12 ATA_SECTOR_SIZE is 512
ATA_SECTOR_SIZE == 3
\* fs.c:18 LUXFS_MAX_INODES is 128
LUXFS_MAX_INODES == 4
\* fs.c:19 LUXFS_DIRECT_BLOCKS is 8
LUXFS_DIRECT_BLOCKS == 3
\* fs.c:20 LUXFS_MAX_PATH_DEPTH is 8
LUXFS_MAX_PATH_DEPTH == 4
\* fs.h:11 FS_NAME_MAX is 32
FS_NAME_MAX == 3
\* fs.c:62 LUXFS_INODES_PER_BLOCK is 512 / sizeof(struct luxfs_inode) = 8
LUXFS_INODES_PER_BLOCK == 2
\* fs.c:65 LUXFS_DATA_BLOCK_COUNT is 4096 - 19 = 4077
LUXFS_DATA_BLOCK_COUNT == 6

LUXFS_MAGIC == 1280661574
LUXFS_VERSION == 1
LUXFS_START_LBA == 2048
\* fs.c:21 LUXFS_INVALID_BLOCK is 0xFFFFFFFF, the largest uint32_t; here it is
\* the largest integer the model's arithmetic has
LUXFS_INVALID_BLOCK == 2147483647
LUXFS_SUPER_BLOCK == 0
LUXFS_INODE_BITMAP_BLOCK == 1
LUXFS_BLOCK_BITMAP_BLOCK == 2
LUXFS_INODE_TABLE_START == 3
LUXFS_NODE_FREE == 0
LUXFS_NODE_DIR == 1
LUXFS_NODE_FILE == 2

LUXFS_INODE_TABLE_BLOCKS ==
    (LUXFS_MAX_INODES + LUXFS_INODES_PER_BLOCK - 1) \div LUXFS_INODES_PER_BLOCK
LUXFS_DATA_BLOCK_START == LUXFS_INODE_TABLE_START + LUXFS_INODE_TABLE_BLOCKS
\* the source fixes the total and derives the data block count; the model fixes
\* the data block count
LUXFS_TOTAL_SECTORS == LUXFS_DATA_BLOCK_START + LUXFS_DATA_BLOCK_COUNT

\* a null pointer to characters or bytes (a path, a name, a buffer)
NullString == <<NULL>>

NoFail == -1
NoCrash == -1

InodeIds == 0 .. LUXFS_MAX_INODES - 1
DirectIds == 0 .. LUXFS_DIRECT_BLOCKS - 1
DataBlockIds == 0 .. LUXFS_DATA_BLOCK_COUNT - 1
SectorCells == 0 .. ATA_SECTOR_SIZE - 1

\* the superblock a formatted volume carries (luxfs_format)
FormattedSuper ==
    [magic |-> LUXFS_MAGIC, version |-> LUXFS_VERSION, block_size |-> ATA_SECTOR_SIZE,
     start_lba |-> LUXFS_START_LBA, total_sectors |-> LUXFS_TOTAL_SECTORS,
     inode_table_start |-> LUXFS_INODE_TABLE_START, inode_count |-> LUXFS_MAX_INODES,
     data_block_start |-> LUXFS_DATA_BLOCK_START, data_block_count |-> LUXFS_DATA_BLOCK_COUNT,
     root_inode |-> 0]

\* the structures as all-zero bytes decode
ZeroedSuper == [f \in DOMAIN FormattedSuper |-> 0]
ZeroedInode == [type |-> 0, size |-> 0, parent |-> 0, direct |-> [k \in DirectIds |-> 0]]
ZeroedInodeBitmap == [i \in InodeIds |-> FALSE]
ZeroedBlockBitmap == [b \in DataBlockIds |-> FALSE]
ZeroedSector == [c \in SectorCells |-> 0]

min_u32(a, b) == IF a < b THEN a ELSE b

\* a local variable of a C function: K is the rest of the function, with the
\* value v the variable was given
With(v, K(_)) == K(v)

bitmap_test(bitmap, index) == bitmap[index]

bitmap_set(bitmap, index, value) == [bitmap EXCEPT ![index] = value]

\* ata_pio_read / ata_pio_write: whether the transfer now due succeeds, and the
\* state with that transfer counted
IoOk(s) == s.n # s.failAt /\ s.n # s.failAlso
IoStep(s) == [s EXCEPT !.n = @ + 1]
Landed(s) == IoOk(s) /\ (s.cut = NoCrash \/ s.w < s.cut)
IoWrite(s) == [IoStep(s) EXCEPT !.w = IF IoOk(s) THEN @ + 1 ELSE @]

disk_read_block(s, block) ==
    [s |-> IoStep(s), ok |-> IoOk(s), buffer |-> s.disk.meta[block]]

disk_write_block(s, block, buffer) ==
    [s |-> [IoWrite(s) EXCEPT !.disk.meta[block] = IF Landed(s) THEN buffer ELSE @],
     ok |-> IoOk(s)]

disk_read_data_block(s, index) ==
    IF index >= LUXFS_DATA_BLOCK_COUNT
    THEN [s |-> s, ok |-> FALSE, buffer |-> ZeroedSector]
    ELSE [s |-> IoStep(s), ok |-> IoOk(s), buffer |-> s.disk.data[index]]

disk_write_data_block(s, index, buffer) ==
    IF index >= LUXFS_DATA_BLOCK_COUNT
    THEN [s |-> s, ok |-> FALSE]
    ELSE [s |-> [IoWrite(s) EXCEPT !.disk.data[index] = IF Landed(s) THEN buffer ELSE @],
          ok |-> IoOk(s)]

luxfs_flush_superblock(s) == disk_write_block(s, LUXFS_SUPER_BLOCK, s.super)

luxfs_flush_inode_bitmap(s) == disk_write_block(s, LUXFS_INODE_BITMAP_BLOCK, s.inode_bitmap)

luxfs_flush_block_bitmap(s) == disk_write_block(s, LUXFS_BLOCK_BITMAP_BLOCK, s.block_bitmap)

\* the inodes an inode-table block holds
InodesOfBlock(block_index) ==
    LET start == block_index * LUXFS_INODES_PER_BLOCK
        count == min_u32(LUXFS_INODES_PER_BLOCK, LUXFS_MAX_INODES - start)
    IN  start .. start + count - 1

luxfs_flush_inode_block(s, block_index) ==
    IF block_index >= LUXFS_INODE_TABLE_BLOCKS
    THEN [s |-> s, ok |-> FALSE]
    ELSE disk_write_block(s, LUXFS_INODE_TABLE_START + block_index,
                          [i \in InodesOfBlock(block_index) |-> s.inodes[i]])

luxfs_flush_inode(s, inode_index) ==
    IF inode_index >= LUXFS_MAX_INODES
    THEN [s |-> s, ok |-> FALSE]
    ELSE luxfs_flush_inode_block(s, inode_index \div LUXFS_INODES_PER_BLOCK)

\* the loop over the inode-table blocks in luxfs_load_metadata, from block on
RECURSIVE LoadInodeBlocks(_, _)
LoadInodeBlocks(s, block) ==
    IF block >= LUXFS_INODE_TABLE_BLOCKS THEN [s |-> s, ok |-> TRUE]
    ELSE With(disk_read_block(s, LUXFS_INODE_TABLE_START + block), LAMBDA r :
         IF ~r.ok THEN [s |-> r.s, ok |-> FALSE]
         ELSE LoadInodeBlocks(
                  [r.s EXCEPT !.inodes = [i \in InodeIds |->
                       IF i \in InodesOfBlock(block) THEN r.buffer[i] ELSE @[i]]],
                  block + 1))

luxfs_load_metadata(s) ==
    With(disk_read_block(s, LUXFS_SUPER_BLOCK), LAMBDA r1 :
    IF ~r1.ok THEN [s |-> r1.s, ok |-> FALSE] ELSE
    With(disk_read_block([r1.s EXCEPT !.super = r1.buffer], LUXFS_INODE_BITMAP_BLOCK),
         LAMBDA r2 :
    IF ~r2.ok THEN [s |-> r2.s, ok |-> FALSE] ELSE
    With(disk_read_block([r2.s EXCEPT !.inode_bitmap = r2.buffer], LUXFS_BLOCK_BITMAP_BLOCK),
         LAMBDA r3 :
    IF ~r3.ok THEN [s |-> r3.s, ok |-> FALSE] ELSE
    LoadInodeBlocks([r3.s EXCEPT !.block_bitmap = r3.buffer], 0))))

luxfs_inode_clear(inode) ==
    [inode EXCEPT !.type = LUXFS_NODE_FREE, !.size = 0, !.parent = 0,
                  !.direct = [k \in DirectIds |-> LUXFS_INVALID_BLOCK]]

\* the loop over the inode-table blocks in luxfs_format, from block on
RECURSIVE FlushInodeBlocks(_, _)
FlushInodeBlocks(s, block) ==
    IF block >= LUXFS_INODE_TABLE_BLOCKS THEN [s |-> s, ok |-> TRUE]
    ELSE With(luxfs_flush_inode_block(s, block), LAMBDA r :
         IF ~r.ok THEN r ELSE FlushInodeBlocks(r.s, block + 1))

luxfs_format(s) ==
    LET cleared == [i \in InodeIds |-> luxfs_inode_clear(ZeroedInode)]
        s0 == [s EXCEPT !.mounted = FALSE,
                        !.super = FormattedSuper,
                        !.inodes = [cleared EXCEPT ![0].type = LUXFS_NODE_DIR, ![0].parent = 0],
                        !.inode_bitmap = bitmap_set(ZeroedInodeBitmap, 0, TRUE),
                        !.block_bitmap = ZeroedBlockBitmap]
    IN
    With(luxfs_flush_superblock(s0), LAMBDA r1 :
    IF ~r1.ok THEN r1 ELSE
    With(luxfs_flush_inode_bitmap(r1.s), LAMBDA r2 :
    IF ~r2.ok THEN r2 ELSE
    With(luxfs_flush_block_bitmap(r2.s), LAMBDA r3 :
    IF ~r3.ok THEN r3 ELSE
    With(FlushInodeBlocks(r3.s, 0), LAMBDA r4 :
    IF ~r4.ok THEN r4 ELSE
    [s |-> [r4.s EXCEPT !.mounted = TRUE], ok |-> TRUE]))))

luxfs_validate_superblock(s) ==
    /\ s.super.magic = LUXFS_MAGIC
    /\ s.super.version = LUXFS_VERSION
    /\ s.super.block_size = ATA_SECTOR_SIZE
    /\ s.super.start_lba = LUXFS_START_LBA
    /\ s.super.total_sectors = LUXFS_TOTAL_SECTORS
    /\ s.super.inode_table_start = LUXFS_INODE_TABLE_START
    /\ s.super.inode_count = LUXFS_MAX_INODES
    /\ s.super.data_block_start = LUXFS_DATA_BLOCK_START
    /\ s.super.data_block_count = LUXFS_DATA_BLOCK_COUNT

\* fs_mount without the test of g_fs.mounted
fs_mount_without_mounted_check(s) ==
    With(luxfs_load_metadata(s), LAMBDA l :
    IF ~l.ok THEN luxfs_format(l.s) ELSE
    IF ~luxfs_validate_superblock(l.s) THEN luxfs_format(l.s) ELSE
    [s |-> [l.s EXCEPT !.mounted = TRUE], ok |-> TRUE])

\* fs_mount with the ATA device initialised and large enough (kernel.c calls
\* fs_mount only after ata_pio_init succeeded)
fs_mount(s) ==
    IF s.mounted THEN [s |-> s, ok |-> TRUE] ELSE
    With(luxfs_load_metadata(s), LAMBDA l :
    IF ~l.ok THEN luxfs_format(l.s) ELSE
    IF ~luxfs_validate_superblock(l.s) THEN luxfs_format(l.s) ELSE
    [s |-> [l.s EXCEPT !.mounted = TRUE], ok |-> TRUE])

fs_ready(s) == s.mounted

\* the first index of ids whose bit is clear, or NULL: the first-fit scans of
\* luxfs_alloc_inode and luxfs_alloc_block
FirstClear(bitmap, ids) ==
    IF \E i \in ids : ~bitmap_test(bitmap, i)
    THEN MinOf({i \in ids : ~bitmap_test(bitmap, i)})
    ELSE NULL

luxfs_alloc_inode(s, type, parent) ==
    With(FirstClear(s.inode_bitmap, InodeIds), LAMBDA i :
    IF i = NULL THEN [s |-> s, ok |-> FALSE, index |-> NULL] ELSE
    With(luxfs_flush_inode_bitmap(
             [s EXCEPT !.inodes[i] = [luxfs_inode_clear(@) EXCEPT !.type = type,
                                                                  !.parent = parent],
                       !.inode_bitmap = bitmap_set(@, i, TRUE)]), LAMBDA r1 :
    IF ~r1.ok THEN [s |-> r1.s, ok |-> FALSE, index |-> NULL] ELSE
    With(luxfs_flush_inode(r1.s, i), LAMBDA r2 :
    IF ~r2.ok THEN [s |-> r2.s, ok |-> FALSE, index |-> NULL] ELSE
    [s |-> r2.s, ok |-> TRUE, index |-> i])))

luxfs_alloc_block(s) ==
    With(FirstClear(s.block_bitmap, DataBlockIds), LAMBDA i :
    IF i = NULL THEN [s |-> s, ok |-> FALSE, index |-> NULL] ELSE
    With(luxfs_flush_block_bitmap([s EXCEPT !.block_bitmap = bitmap_set(@, i, TRUE)]),
         LAMBDA r :
    IF ~r.ok THEN [s |-> r.s, ok |-> FALSE, index |-> NULL] ELSE
    [s |-> r.s, ok |-> TRUE, index |-> i]))

luxfs_free_block(s, index) ==
    IF index >= LUXFS_DATA_BLOCK_COUNT THEN [s |-> s, ok |-> FALSE] ELSE
    IF ~bitmap_test(s.block_bitmap, index) THEN [s |-> s, ok |-> TRUE] ELSE
    luxfs_flush_block_bitmap([s EXCEPT !.block_bitmap = bitmap_set(@, index, FALSE)])

\* the loop of luxfs_release_inode_blocks from direct pointer k on
RECURSIVE ReleaseFrom(_, _, _, _)
ReleaseFrom(s, inode_index, k, ok) ==
    IF k >= LUXFS_DIRECT_BLOCKS THEN [s |-> s, ok |-> ok] ELSE
    IF s.inodes[inode_index].direct[k] # LUXFS_INVALID_BLOCK
    THEN With(luxfs_free_block(s, s.inodes[inode_index].direct[k]), LAMBDA r :
         ReleaseFrom([r.s EXCEPT !.inodes[inode_index].direct[k] = LUXFS_INVALID_BLOCK],
                     inode_index, k + 1, ok /\ r.ok))
    ELSE ReleaseFrom(s, inode_index, k + 1, ok)

\* the inode is passed by its index in g_fs.inodes
luxfs_release_inode_blocks_keeping_bits(s, inode_index) ==
    [s |-> [s EXCEPT !.inodes[inode_index].direct = [k \in DirectIds |-> LUXFS_INVALID_BLOCK],
                     !.inodes[inode_index].size = 0],
     ok |-> TRUE]

luxfs_release_inode_blocks(s, inode_index) ==
    With(ReleaseFrom(s, inode_index, 0, TRUE), LAMBDA r :
    [s |-> [r.s EXCEPT !.inodes[inode_index].size = 0], ok |-> r.ok])

luxfs_mark_inode_free(s, index) ==
    IF index >= LUXFS_MAX_INODES THEN s ELSE
    LET r == luxfs_release_inode_blocks(s, index)
        s1 == [r.s EXCEPT !.inodes[index] = luxfs_inode_clear(@),
                          !.inode_bitmap = bitmap_set(@, index, FALSE)]
    IN  luxfs_flush_inode_bitmap(luxfs_flush_inode(s1, index).s).s

\* struct luxfs_dir_record as the cells it occupies: the inode number, then the
\* FS_NAME_MAX characters of the name
RecordSize == 1 + FS_NAME_MAX

\* a char array read as a C string: the characters before the first NUL
RECURSIVE CStr(_)
CStr(cells) ==
    IF cells = << >> \/ Head(cells) = 0 THEN << >> ELSE <<Head(cells)>> \o CStr(Tail(cells))

\* luxfs_copy_name into a buffer that memset has zeroed
luxfs_copy_name(src) ==
    LET len == IF Len(src) >= FS_NAME_MAX THEN FS_NAME_MAX - 1 ELSE Len(src) IN
    [j \in 1 .. FS_NAME_MAX |-> IF j <= len THEN src[j] ELSE 0]

RecordOf(inode, name) == <<inode>> \o luxfs_copy_name(name)

\* luxfs_dir_find_cb: FALSE stops the iteration.  A null target never
\* matches, which is how luxfs_dir_emit_cb (always TRUE) is modelled as well.
luxfs_dir_find_cb(record, target) ==
    IF target = NullString THEN TRUE ELSE CStr(Tail(record)) # target

\* the inner loop of luxfs_dir_iterate over the chunk of one sector; rec holds
\* the cells of the record gathered so far (record_progress is its length)
RECURSIVE DirChunk(_, _, _, _, _, _)
DirChunk(buffer, block_offset, chunk, consumed, rec, target) ==
    IF consumed >= chunk THEN [stop |-> FALSE, rec |-> rec, visited |-> << >>] ELSE
    With(min_u32(RecordSize - Len(rec), chunk - consumed), LAMBDA copy :
    With(rec \o [j \in 1 .. copy |-> buffer[block_offset + consumed + j - 1]], LAMBDA rec1 :
    IF Len(rec1) # RecordSize
    THEN DirChunk(buffer, block_offset, chunk, consumed + copy, rec1, target)
    ELSE IF ~luxfs_dir_find_cb(rec1, target)
         THEN [stop |-> TRUE, rec |-> rec1, visited |-> <<rec1>>]
         ELSE [DirChunk(buffer, block_offset, chunk, consumed + copy, << >>, target)
                  EXCEPT !.visited = <<rec1>> \o @]))

\* the outer loop of luxfs_dir_iterate
RECURSIVE DirBlocks(_, _, _, _, _, _)
DirBlocks(s, dir_index, processed, offset, rec, target) ==
    LET dir == s.inodes[dir_index]
        block_idx == offset \div ATA_SECTOR_SIZE
        block_offset == offset % ATA_SECTOR_SIZE
        fail == [s |-> s, ok |-> FALSE, stopped |-> FALSE, visited |-> << >>]
    IN
    IF processed >= dir.size
    THEN [s |-> s, ok |-> (Len(rec) = 0), stopped |-> FALSE, visited |-> << >>] ELSE
    IF block_idx >= LUXFS_DIRECT_BLOCKS THEN fail ELSE
    IF dir.direct[block_idx] = LUXFS_INVALID_BLOCK THEN fail ELSE
    With(disk_read_data_block(s, dir.direct[block_idx]), LAMBDA r :
    IF ~r.ok THEN [fail EXCEPT !.s = r.s] ELSE
    With(min_u32(ATA_SECTOR_SIZE - block_offset, dir.size - processed), LAMBDA chunk :
    With(DirChunk(r.buffer, block_offset, chunk, 0, rec, target), LAMBDA c :
    IF c.stop THEN [s |-> r.s, ok |-> TRUE, stopped |-> TRUE, visited |-> c.visited] ELSE
    [DirBlocks(r.s, dir_index, processed + chunk, offset + chunk, c.rec, target)
        EXCEPT !.visited = c.visited \o @])))

\* visited: the records the callback was given, in order; stopped: the callback
\* ended the iteration
luxfs_dir_iterate(s, dir_index, target) ==
    IF dir_index >= LUXFS_MAX_INODES \/ s.inodes[dir_index].type # LUXFS_NODE_DIR
    THEN [s |-> s, ok |-> FALSE, stopped |-> FALSE, visited |-> << >>]
    ELSE DirBlocks(s, dir_index, 0, 0, << >>, target)

luxfs_dir_find(s, dir_index, name) ==
    With(luxfs_dir_iterate(s, dir_index, name), LAMBDA r :
    IF ~r.ok \/ ~r.stopped THEN [s |-> r.s, ok |-> FALSE, inode |-> 0]
    ELSE [s |-> r.s, ok |-> TRUE, inode |-> r.visited[Len(r.visited)][1]])

\* an append loop that grows the directory's size with every chunk it writes
RECURSIVE AppendCells_growing_per_chunk(_, _, _, _)
AppendCells_growing_per_chunk(s, dir_index, offset, src) ==
    LET block_idx == offset \div ATA_SECTOR_SIZE
        block_offset == offset % ATA_SECTOR_SIZE
    IN
    IF src = << >> THEN luxfs_flush_inode(s, dir_index) ELSE
    IF block_idx >= LUXFS_DIRECT_BLOCKS THEN [s |-> s, ok |-> FALSE] ELSE
    With(IF s.inodes[dir_index].direct[block_idx] # LUXFS_INVALID_BLOCK
         THEN [s |-> s, ok |-> TRUE]
         ELSE With(luxfs_alloc_block(s), LAMBDA n :
              IF ~n.ok THEN [s |-> n.s, ok |-> FALSE] ELSE
              With(disk_write_data_block(n.s, n.index, ZeroedSector), LAMBDA z :
              IF ~z.ok THEN z ELSE
              [s |-> [z.s EXCEPT !.inodes[dir_index].direct[block_idx] = n.index],
               ok |-> TRUE])),
         LAMBDA a :
    IF ~a.ok THEN a ELSE
    With(disk_read_data_block(a.s, a.s.inodes[dir_index].direct[block_idx]), LAMBDA r :
    IF ~r.ok THEN [s |-> r.s, ok |-> FALSE] ELSE
    With(min_u32(ATA_SECTOR_SIZE - block_offset, Len(src)), LAMBDA chunk :
    With(disk_write_data_block(
             [r.s EXCEPT !.inodes[dir_index].size = @ + chunk],
             r.s.inodes[dir_index].direct[block_idx],
             [c \in SectorCells |->
                 IF c >= block_offset /\ c < block_offset + chunk
                 THEN src[c - block_offset + 1] ELSE r.buffer[c]]), LAMBDA w :
    IF ~w.ok THEN w ELSE
    AppendCells_growing_per_chunk(
        w.s, dir_index, offset + chunk, SubSeq(src, chunk + 1, Len(src)))))))

\* the loop of luxfs_dir_append_record: src holds the cells still to write
RECURSIVE AppendCells(_, _, _, _)
AppendCells(s, dir_index, offset, src) ==
    LET block_idx == offset \div ATA_SECTOR_SIZE
        block_offset == offset % ATA_SECTOR_SIZE
    IN
    IF src = << >>
    THEN luxfs_flush_inode([s EXCEPT !.inodes[dir_index].size = @ + RecordSize], dir_index) ELSE
    IF block_idx >= LUXFS_DIRECT_BLOCKS THEN [s |-> s, ok |-> FALSE] ELSE
    With(IF s.inodes[dir_index].direct[block_idx] # LUXFS_INVALID_BLOCK
         THEN [s |-> s, ok |-> TRUE]
         ELSE With(luxfs_alloc_block(s), LAMBDA n :
              IF ~n.ok THEN [s |-> n.s, ok |-> FALSE] ELSE
              With(disk_write_data_block(n.s, n.index, ZeroedSector), LAMBDA z :
              IF ~z.ok THEN z ELSE
              [s |-> [z.s EXCEPT !.inodes[dir_index].direct[block_idx] = n.index],
               ok |-> TRUE])),
         LAMBDA a :
    IF ~a.ok THEN a ELSE
    With(disk_read_data_block(a.s, a.s.inodes[dir_index].direct[block_idx]), LAMBDA r :
    IF ~r.ok THEN [s |-> r.s, ok |-> FALSE] ELSE
    With(min_u32(ATA_SECTOR_SIZE - block_offset, Len(src)), LAMBDA chunk :
    With(disk_write_data_block(
             r.s, r.s.inodes[dir_index].direct[block_idx],
             [c \in SectorCells |->
                 IF c >= block_offset /\ c < block_offset + chunk
                 THEN src[c - block_offset + 1] ELSE r.buffer[c]]), LAMBDA w :
    IF ~w.ok THEN w ELSE
    AppendCells(w.s, dir_index, offset + chunk, SubSeq(src, chunk + 1, Len(src)))))))

luxfs_dir_append_record(s, dir_index, record) ==
    IF dir_index >= LUXFS_MAX_INODES \/ s.inodes[dir_index].type # LUXFS_NODE_DIR
    THEN [s |-> s, ok |-> FALSE]
    ELSE AppendCells(s, dir_index, s.inodes[dir_index].size, record)

\* characters of a path: a path is the sequence of its characters before the
\* terminating NUL, or NullString for a null pointer
CHAR_SLASH == 47
CHAR_DOT == 46

\* path[i] of the C string, 1-based: NUL from the end on
CharAt(path, i) == IF i > Len(path) THEN 0 ELSE path[i]

RECURSIVE SkipSlashes(_, _)
SkipSlashes(path, i) ==
    IF CharAt(path, i) = CHAR_SLASH THEN SkipSlashes(path, i + 1) ELSE i

\* the loop that copies one component: FALSE in ok when it does not fit
RECURSIVE CopyComponent(_, _, _)
CopyComponent(path, i, comp) ==
    IF CharAt(path, i) = 0 \/ CharAt(path, i) = CHAR_SLASH
    THEN [ok |-> TRUE, i |-> i, comp |-> comp]
    ELSE IF Len(comp) >= FS_NAME_MAX - 1
         THEN [ok |-> FALSE, i |-> i, comp |-> comp]
         ELSE CopyComponent(path, i + 1, Append(comp, path[i]))

RECURSIVE TokenizeFrom(_, _, _)
TokenizeFrom(path, i, components) ==
    With(SkipSlashes(path, i), LAMBDA j :
    IF CharAt(path, j) = 0 THEN [ok |-> TRUE, components |-> components] ELSE
    IF Len(components) >= LUXFS_MAX_PATH_DEPTH THEN [ok |-> FALSE, components |-> << >>] ELSE
    With(CopyComponent(path, j, << >>), LAMBDA c :
    IF ~c.ok THEN [ok |-> FALSE, components |-> << >>] ELSE
    IF c.comp = <<CHAR_DOT>> \/ c.comp = << >>
    THEN TokenizeFrom(path, c.i, components)
    ELSE TokenizeFrom(path, c.i, Append(components, c.comp))))

luxfs_tokenize_path(path) ==
    IF path = NullString THEN [ok |-> FALSE, components |-> << >>]
    ELSE TokenizeFrom(path, 1, << >>)

\* the walk with ".." leading to the root directory whatever the parent field
RECURSIVE WalkUpToRoot(_, _, _, _, _, _)
WalkUpToRoot(s, components, i, last, current, dirsOnly) ==
    IF i > last THEN [s |-> s, ok |-> TRUE, inode |-> current] ELSE
    IF components[i] = <<CHAR_DOT, CHAR_DOT>>
    THEN WalkUpToRoot(s, components, i + 1, last, s.super.root_inode, dirsOnly) ELSE
    With(luxfs_dir_find(s, current, components[i]), LAMBDA f :
    IF ~f.ok THEN [s |-> f.s, ok |-> FALSE, inode |-> 0] ELSE
    IF dirsOnly /\ f.s.inodes[f.inode].type # LUXFS_NODE_DIR
    THEN [s |-> f.s, ok |-> FALSE, inode |-> 0]
    ELSE WalkUpToRoot(f.s, components, i + 1, last, f.inode, dirsOnly))

\* the walk of luxfs_resolve and luxfs_resolve_parent over components i .. last;
\* dirsOnly is the type check only luxfs_resolve_parent makes
RECURSIVE Walk(_, _, _, _, _, _)
Walk(s, components, i, last, current, dirsOnly) ==
    IF i > last THEN [s |-> s, ok |-> TRUE, inode |-> current] ELSE
    IF components[i] = <<CHAR_DOT, CHAR_DOT>>
    THEN Walk(s, components, i + 1, last, s.inodes[current].parent, dirsOnly) ELSE
    With(luxfs_dir_find(s, current, components[i]), LAMBDA f :
    IF ~f.ok THEN [s |-> f.s, ok |-> FALSE, inode |-> 0] ELSE
    IF dirsOnly /\ f.s.inodes[f.inode].type # LUXFS_NODE_DIR
    THEN [s |-> f.s, ok |-> FALSE, inode |-> 0]
    ELSE Walk(f.s, components, i + 1, last, f.inode, dirsOnly))

luxfs_resolve(s, path) ==
    With(luxfs_tokenize_path(path), LAMBDA t :
    IF ~t.ok THEN [s |-> s, ok |-> FALSE, inode |-> 0]
    ELSE Walk(s, t.components, 1, Len(t.components), s.super.root_inode, FALSE))

luxfs_resolve_parent(s, path) ==
    With(luxfs_tokenize_path(path), LAMBDA t :
    With(Len(t.components), LAMBDA depth :
    IF ~t.ok \/ depth = 0 THEN [s |-> s, ok |-> FALSE, inode |-> 0, leaf |-> << >>] ELSE
    With(Walk(s, t.components, 1, depth - 1, s.super.root_inode, TRUE), LAMBDA w :
    [s |-> w.s, ok |-> w.ok, inode |-> w.inode, leaf |-> t.components[depth]])))

\* the leaf names fs_touch and fs_mkdir refuse: empty, "." and ".."
LeafRefused(leaf) ==
    leaf = << >> \/ leaf = <<CHAR_DOT>> \/ leaf = <<CHAR_DOT, CHAR_DOT>>

\* what fs_touch and fs_mkdir share from luxfs_resolve_parent on; ifExists is
\* what the call returns when the parent already holds the leaf name
CreateNode(s, path, type, ifExists) ==
    With(luxfs_resolve_parent(s, path), LAMBDA p :
    IF ~p.ok THEN [s |-> p.s, ok |-> FALSE] ELSE
    IF LeafRefused(p.leaf) THEN [s |-> p.s, ok |-> FALSE] ELSE
    With(luxfs_dir_find(p.s, p.inode, p.leaf), LAMBDA f :
    IF f.ok THEN [s |-> f.s, ok |-> ifExists] ELSE
    With(luxfs_alloc_inode(f.s, type, p.inode), LAMBDA a :
    IF ~a.ok THEN [s |-> a.s, ok |-> FALSE] ELSE
    With(luxfs_dir_append_record(a.s, p.inode, RecordOf(a.index, p.leaf)), LAMBDA d :
    IF ~d.ok THEN [s |-> luxfs_mark_inode_free(d.s, a.index), ok |-> FALSE]
    ELSE [s |-> d.s, ok |-> TRUE]))))

\* fs_touch that returns true for whatever exists at the path
fs_touch_over_directory(s, path) ==
    IF ~fs_ready(s) \/ path = NullString THEN [s |-> s, ok |-> FALSE] ELSE
    With(luxfs_resolve(s, path), LAMBDA e :
    IF e.ok THEN [s |-> e.s, ok |-> TRUE]
    ELSE CreateNode(e.s, path, LUXFS_NODE_FILE, TRUE))

fs_touch(s, path) ==
    IF ~fs_ready(s) \/ path = NullString THEN [s |-> s, ok |-> FALSE] ELSE
    With(luxfs_resolve(s, path), LAMBDA e :
    IF e.ok THEN [s |-> e.s, ok |-> (e.s.inodes[e.inode].type = LUXFS_NODE_FILE)]
    ELSE CreateNode(e.s, path, LUXFS_NODE_FILE, TRUE))

\* fs_mkdir that returns true when the path exists already
fs_mkdir_accepting_existing(s, path) ==
    IF ~fs_ready(s) \/ path = NullString THEN [s |-> s, ok |-> FALSE] ELSE
    With(luxfs_resolve(s, path), LAMBDA e :
    IF e.ok THEN [s |-> e.s, ok |-> TRUE]
    ELSE CreateNode(e.s, path, LUXFS_NODE_DIR, FALSE))

fs_mkdir(s, path) ==
    IF ~fs_ready(s) \/ path = NullString THEN [s |-> s, ok |-> FALSE] ELSE
    With(luxfs_resolve(s, path), LAMBDA e :
    IF e.ok THEN [s |-> e.s, ok |-> FALSE]
    ELSE CreateNode(e.s, path, LUXFS_NODE_DIR, FALSE))

\* the loop of fs_read: data holds the bytes copied out so far (total is its
\* length); a missing block ends the loop, a failed transfer the call
RECURSIVE ReadBlocks(_, _, _, _, _)
ReadBlocks(s, inode_index, offset, remaining, data) ==
    LET block_idx == offset \div ATA_SECTOR_SIZE
        block_offset == offset % ATA_SECTOR_SIZE
        done == [s |-> s, ok |-> TRUE, data |-> data, bytes_read |-> Len(data)]
    IN
    IF remaining = 0 THEN done ELSE
    IF block_idx >= LUXFS_DIRECT_BLOCKS THEN done ELSE
    IF s.inodes[inode_index].direct[block_idx] = LUXFS_INVALID_BLOCK THEN done ELSE
    With(disk_read_data_block(s, s.inodes[inode_index].direct[block_idx]), LAMBDA r :
    IF ~r.ok THEN [s |-> r.s, ok |-> FALSE, data |-> data, bytes_read |-> NULL] ELSE
    With(min_u32(ATA_SECTOR_SIZE - block_offset, remaining), LAMBDA chunk :
    ReadBlocks(r.s, inode_index, offset + chunk, remaining - chunk,
               data \o [j \in 1 .. chunk |-> r.buffer[block_offset + j - 1]])))

\* fs_read reading from the start of the file whatever the offset
fs_read_from_start(s, path, offset, length) ==
    LET fail == [s |-> s, ok |-> FALSE, data |-> << >>, bytes_read |-> NULL] IN
    IF ~fs_ready(s) \/ path = NullString THEN fail ELSE
    With(luxfs_resolve(s, path), LAMBDA e :
    IF ~e.ok THEN [fail EXCEPT !.s = e.s] ELSE
    IF e.s.inodes[e.inode].type # LUXFS_NODE_FILE THEN [fail EXCEPT !.s = e.s] ELSE
    IF offset >= e.s.inodes[e.inode].size
    THEN [s |-> e.s, ok |-> TRUE, data |-> << >>, bytes_read |-> 0]
    ELSE ReadBlocks(e.s, e.inode, 0,
                    min_u32(e.s.inodes[e.inode].size - offset, length), << >>))

\* buffer and bytes_read are taken to be non-null; data is what the call has
\* stored in buffer, bytes_read what it has stored in *bytes_read (NULL: nothing)
fs_read(s, path, offset, length) ==
    LET fail == [s |-> s, ok |-> FALSE, data |-> << >>, bytes_read |-> NULL] IN
    IF ~fs_ready(s) \/ path = NullString THEN fail ELSE
    With(luxfs_resolve(s, path), LAMBDA e :
    IF ~e.ok THEN [fail EXCEPT !.s = e.s] ELSE
    IF e.s.inodes[e.inode].type # LUXFS_NODE_FILE THEN [fail EXCEPT !.s = e.s] ELSE
    IF offset >= e.s.inodes[e.inode].size
    THEN [s |-> e.s, ok |-> TRUE, data |-> << >>, bytes_read |-> 0]
    ELSE ReadBlocks(e.s, e.inode, offset,
                    min_u32(e.s.inodes[e.inode].size - offset, length), << >>))

\* the loop of fs_write
RECURSIVE WriteBlocks(_, _, _, _, _, _)
WriteBlocks(s, inode_index, buffer, length, total_written, write_offset) ==
    LET block_idx == write_offset \div ATA_SECTOR_SIZE
        block_offset == write_offset % ATA_SECTOR_SIZE
    IN
    IF total_written >= length
    THEN luxfs_flush_inode(
             [s EXCEPT !.inodes[inode_index].size = IF write_offset > @ THEN write_offset ELSE @],
             inode_index) ELSE
    IF block_idx >= LUXFS_DIRECT_BLOCKS THEN [s |-> s, ok |-> FALSE] ELSE
    With(IF s.inodes[inode_index].direct[block_idx] = LUXFS_INVALID_BLOCK
         THEN With(luxfs_alloc_block(s), LAMBDA a :
              IF ~a.ok THEN [s |-> a.s, ok |-> FALSE, buffer |-> ZeroedSector]
              ELSE [s |-> [a.s EXCEPT !.inodes[inode_index].direct[block_idx] = a.index],
                    ok |-> TRUE, buffer |-> ZeroedSector])
         ELSE disk_read_data_block(s, s.inodes[inode_index].direct[block_idx]),
         LAMBDA b :
    IF ~b.ok THEN [s |-> b.s, ok |-> FALSE] ELSE
    With(min_u32(ATA_SECTOR_SIZE - block_offset, length - total_written), LAMBDA chunk :
    With(disk_write_data_block(
             b.s, b.s.inodes[inode_index].direct[block_idx],
             [c \in SectorCells |->
                 IF c >= block_offset /\ c < block_offset + chunk
                 THEN buffer[total_written + c - block_offset + 1] ELSE b.buffer[c]]),
         LAMBDA w :
    IF ~w.ok THEN w ELSE
    WriteBlocks(w.s, inode_index, buffer, length, total_written + chunk,
                write_offset + chunk))))

\* LUXFS_DIRECT_BLOCKS * ATA_SECTOR_SIZE, the max_size of fs_write
MaxFileSize == LUXFS_DIRECT_BLOCKS * ATA_SECTOR_SIZE

\* fs_write from luxfs_resolve on
WriteResolved(s, path, offset, buffer, length, truncate) ==
    With(luxfs_resolve(s, path), LAMBDA e :
    IF ~e.ok THEN [s |-> e.s, ok |-> FALSE] ELSE
    IF e.s.inodes[e.inode].type # LUXFS_NODE_FILE THEN [s |-> e.s, ok |-> FALSE] ELSE
    IF ~truncate /\ offset > e.s.inodes[e.inode].size THEN [s |-> e.s, ok |-> FALSE] ELSE
    With(IF truncate THEN luxfs_release_inode_blocks(e.s, e.inode)
                     ELSE [s |-> e.s, ok |-> TRUE], LAMBDA t :
    IF ~t.ok THEN t ELSE
    IF length = 0 THEN luxfs_flush_inode(t.s, e.inode)
    ELSE WriteBlocks(t.s, e.inode, buffer, length, 0, offset)))

fs_write_without_ceiling(s, path, offset, buffer, length, truncate) ==
    IF ~fs_ready(s) \/ path = NullString THEN [s |-> s, ok |-> FALSE] ELSE
    IF length # 0 /\ buffer = NullString THEN [s |-> s, ok |-> FALSE] ELSE
    WriteResolved(s, path, offset, buffer, length, truncate)

fs_write(s, path, offset, buffer, length, truncate) ==
    IF ~fs_ready(s) \/ path = NullString THEN [s |-> s, ok |-> FALSE] ELSE
    IF length # 0 /\ buffer = NullString THEN [s |-> s, ok |-> FALSE] ELSE
    IF offset > MaxFileSize THEN [s |-> s, ok |-> FALSE] ELSE
    IF length > MaxFileSize - offset THEN [s |-> s, ok |-> FALSE] ELSE
    WriteResolved(s, path, offset, buffer, length, truncate)


\* the end of the path once trailing slashes are dropped (0: nothing is left)
RECURSIVE BasenameEnd(_, _)
BasenameEnd(path, end) ==
    IF end > 0 /\ path[end] = CHAR_SLASH THEN BasenameEnd(path, end - 1) ELSE end

\* where the last segment before end begins
RECURSIVE BasenameCursor(_, _)
BasenameCursor(path, cursor) ==
    IF cursor > 0 /\ path[cursor] # CHAR_SLASH THEN BasenameCursor(path, cursor - 1) ELSE cursor

\* luxfs_basename into a name that memset has zeroed
luxfs_basename(path) ==
    IF path = NullString \/ path = << >> THEN luxfs_copy_name(<<CHAR_SLASH>>) ELSE
    With(BasenameEnd(path, Len(path)), LAMBDA end :
    IF end = 0 THEN luxfs_copy_name(<<CHAR_SLASH>>)
    ELSE luxfs_copy_name(SubSeq(path, BasenameCursor(path, end) + 1, end)))

\* luxfs_dir_emit_cb over the records luxfs_dir_iterate visits: the entries the
\* callback of fs_list is given, in order
RECURSIVE EmitEntries(_, _)
EmitEntries(s, records) ==
    IF records = << >> THEN << >> ELSE
    With(Head(records), LAMBDA record :
    IF record[1] >= LUXFS_MAX_INODES THEN EmitEntries(s, Tail(records)) ELSE
    IF s.inodes[record[1]].type = LUXFS_NODE_FREE THEN EmitEntries(s, Tail(records)) ELSE
    <<[name |-> Tail(record),
       is_dir |-> (s.inodes[record[1]].type = LUXFS_NODE_DIR),
       size |-> s.inodes[record[1]].size]>> \o EmitEntries(s, Tail(records)))

\* fs_list that stops after the first sector of the directory
fs_list_first_sector(s, path, cb_null) ==
    IF ~fs_ready(s) THEN [s |-> s, ok |-> FALSE, entries |-> << >>] ELSE
    With(luxfs_resolve(s, IF path = NullString THEN <<CHAR_SLASH>> ELSE path), LAMBDA e :
    IF ~e.ok THEN [s |-> e.s, ok |-> FALSE, entries |-> << >>] ELSE
    IF e.s.inodes[e.inode].type # LUXFS_NODE_DIR \/ cb_null
    THEN [s |-> e.s, ok |-> TRUE, entries |-> << >>] ELSE
    With(luxfs_dir_iterate(
             [e.s EXCEPT !.inodes[e.inode].size = min_u32(@, ATA_SECTOR_SIZE)],
             e.inode, NullString), LAMBDA r :
    [s |-> e.s, ok |-> TRUE, entries |-> EmitEntries(e.s, r.visited)]))

\* [s, ok, entries]: entries are the struct fs_dirent the callback was given;
\* cb_null: the caller passed no callback
fs_list(s, path, cb_null) ==
    IF ~fs_ready(s) THEN [s |-> s, ok |-> FALSE, entries |-> << >>] ELSE
    With(IF path = NullString THEN <<CHAR_SLASH>> ELSE path, LAMBDA resolved_path :
    With(luxfs_resolve(s, resolved_path), LAMBDA e :
    IF ~e.ok THEN [s |-> e.s, ok |-> FALSE, entries |-> << >>] ELSE
    IF e.s.inodes[e.inode].type = LUXFS_NODE_FILE
    THEN [s |-> e.s, ok |-> TRUE,
          entries |-> IF cb_null THEN << >>
                      ELSE <<[name |-> luxfs_basename(resolved_path), is_dir |-> FALSE,
                              size |-> e.s.inodes[e.inode].size]>>] ELSE
    IF cb_null THEN [s |-> e.s, ok |-> TRUE, entries |-> << >>] ELSE
    With(luxfs_dir_iterate(e.s, e.inode, NullString), LAMBDA r :
    [s |-> r.s, ok |-> r.ok, entries |-> EmitEntries(r.s, r.visited)])))

\* fs_stat_path that reports the size of the root directory
fs_stat_path_of_root(s, path, out_null) ==
    IF ~fs_ready(s) \/ path = NullString \/ out_null
    THEN [s |-> s, ok |-> FALSE, is_dir |-> FALSE, size |-> 0] ELSE
    With(luxfs_resolve(s, path), LAMBDA e :
    IF ~e.ok THEN [s |-> e.s, ok |-> FALSE, is_dir |-> FALSE, size |-> 0]
    ELSE [s |-> e.s, ok |-> TRUE,
          is_dir |-> (e.s.inodes[e.inode].type = LUXFS_NODE_DIR),
          size |-> e.s.inodes[e.s.super.root_inode].size])

\* [s, ok, is_dir, size]: is_dir and size are what *out_stats was given when ok;
\* out_null: the caller passed a null out_stats
fs_stat_path(s, path, out_null) ==
    IF ~fs_ready(s) \/ path = NullString \/ out_null
    THEN [s |-> s, ok |-> FALSE, is_dir |-> FALSE, size |-> 0] ELSE
    With(luxfs_resolve(s, path), LAMBDA e :
    IF ~e.ok THEN [s |-> e.s, ok |-> FALSE, is_dir |-> FALSE, size |-> 0]
    ELSE [s |-> e.s, ok |-> TRUE,
          is_dir |-> (e.s.inodes[e.inode].type = LUXFS_NODE_DIR),
          size |-> e.s.inodes[e.inode].size])
(***************************************************************************)
(* The filesystem calls as actions                                         *)
(***************************************************************************)
\* the longest buffer given to fs_write and the longest read asked of fs_read
MaxWrite == 3
\* fs_write and fs_read are given offsets 0 .. MaxFileSize + OffsetsBeyond
OffsetsBeyond == 1
\* the device fails at most one transfer of a call, one of its first MaxFailAt + 1
MaxFailAt == 4
\* power is lost after at most MaxCut sector writes of a call
MaxCut == 3
\* the filesystem is followed through MaxFsCalls calls, and through MaxFaultCalls
\* where the device fails or power is lost (with fewer arguments to choose from)
MaxFsCalls == 4
MaxFaultCalls == 5

\* "/a" and "/b"
Paths == { <<CHAR_SLASH, 97>>, <<CHAR_SLASH, 98>> }

\* one byte string of each length, of bytes 1 and 2, no two starting alike
Buffers == { [j \in 1 .. len |-> 1 + ((j + len) % 2)] : len \in 0 .. MaxWrite }

Offsets == 0 .. MaxFileSize + OffsetsBeyond

\* the arguments of fs_write where the device fails or power is lost
FaultOffsets == {0, ATA_SECTOR_SIZE}
FaultBuffers == {b \in Buffers : Len(b) \in {0, ATA_SECTOR_SIZE}}

\* a call that ends in state s had one of its sector transfers fail
Failed(s) ==
    \/ s.failAt # NoFail /\ s.failAt < s.n
    \/ s.failAlso # NoFail /\ s.failAlso < s.n

\* the state a call starts from
FsState(failAt, cut) ==
    [mounted |-> g_fs.mounted, super |-> g_fs.super, inodes |-> g_fs.inodes,
     inode_bitmap |-> g_fs.inode_bitmap, block_bitmap |-> g_fs.block_bitmap,
     disk |-> disk, n |-> 0, failAt |-> failAt, failAlso |-> NoFail, w |-> 0, cut |-> cut]

\* the state a call leaves
SetFs(s) ==
    /\ g_fs' = [mounted |-> s.mounted, super |-> s.super, inodes |-> s.inodes,
                inode_bitmap |-> s.inode_bitmap, block_bitmap |-> s.block_bitmap]
    /\ disk' = s.disk
    /\ g_fscalls' = g_fscalls + 1

\* the inode a path names if it names a regular file, else NULL
FileOf(path) ==
    With(luxfs_resolve(FsState(NoFail, NoCrash), path), LAMBDA e :
    IF g_fs.mounted /\ e.ok /\ g_fs.inodes[e.inode].type = LUXFS_NODE_FILE
    THEN e.inode ELSE NULL)

\* a call returns r: it leaves the state r.s, and op records the call with what
\* it returned
Returns(r, op) ==
    /\ SetFs(r.s)
    /\ g_fsop' = op

\* mounted: g_fs.mounted as the call found it; transfers: the sector transfers
\* the call issued; unchanged: it left g_fs and the disk as they were
FsMount(failAt) ==
    With(fs_mount(FsState(failAt, NoCrash)), LAMBDA r :
    Returns(r, [op |-> "mount", ret |-> r.ok, mounted |-> g_fs.mounted,
                transfers |-> r.s.n,
                unchanged |-> (r.s.disk = disk /\ [f \in DOMAIN g_fs |-> r.s[f]] = g_fs)]))

\* pre: g_fs and the disk as the call found them; failed: one of the sector
\* transfers of the call failed
FsTouch(path, failAt) ==
    With(fs_touch(FsState(failAt, NoCrash), path), LAMBDA r :
    Returns(r, [op |-> "touch", path |-> path, ret |-> r.ok, failed |-> Failed(r.s),
                pre |-> [fs |-> g_fs, disk |-> disk]]))

FsMkdir(path, failAt) ==
    With(fs_mkdir(FsState(failAt, NoCrash), path), LAMBDA r :
    Returns(r, [op |-> "mkdir", path |-> path, ret |-> r.ok, failed |-> Failed(r.s),
                pre |-> [fs |-> g_fs, disk |-> disk]]))

\* the state a call starts from on a device that fails two of its transfers
FsStateFailing(failAt, failAlso) ==
    [FsState(failAt, NoCrash) EXCEPT !.failAlso = failAlso]

\* fs_touch and fs_mkdir on such a device
FsTouchFailing(path, failAt, failAlso) ==
    With(fs_touch(FsStateFailing(failAt, failAlso), path), LAMBDA r :
    Returns(r, [op |-> "touch", path |-> path, ret |-> r.ok, failed |-> Failed(r.s)]))

FsMkdirFailing(path, failAt, failAlso) ==
    With(fs_mkdir(FsStateFailing(failAt, failAlso), path), LAMBDA r :
    Returns(r, [op |-> "mkdir", path |-> path, ret |-> r.ok, failed |-> Failed(r.s)]))

FsRead(path, offset, length, failAt) ==
    With(fs_read(FsState(failAt, NoCrash), path, offset, length), LAMBDA r :
    Returns(r, [op |-> "read", path |-> path, offset |-> offset, length |-> length,
                ret |-> r.ok, data |-> r.data, bytes_read |-> r.bytes_read,
                failed |-> Failed(r.s)]))

\* file, size, direct and free are as the call found them
FsWrite(path, offset, buffer, truncate, failAt) ==
    With(fs_write(FsState(failAt, NoCrash), path, offset, buffer, Len(buffer), truncate),
         LAMBDA r :
    With(FileOf(path), LAMBDA file :
    Returns(r, [op |-> "write", path |-> path, offset |-> offset, buffer |-> buffer,
                truncate |-> truncate, ret |-> r.ok, file |-> file,
                failed |-> Failed(r.s),
                size |-> IF file = NULL THEN 0 ELSE g_fs.inodes[file].size,
                direct |-> IF file = NULL THEN << >> ELSE g_fs.inodes[file].direct,
                free |-> Cardinality({b \in DataBlockIds : ~g_fs.block_bitmap[b]})])))

\* a reboot: g_fs is zeroed again and kernel() mounts what the disk holds
Reboot(d) ==
    fs_mount([mounted |-> FALSE, super |-> ZeroedSuper,
              inodes |-> [i \in InodeIds |-> ZeroedInode],
              inode_bitmap |-> ZeroedInodeBitmap, block_bitmap |-> ZeroedBlockBitmap,
              disk |-> d, n |-> 0, failAt |-> NoFail, failAlso |-> NoFail, w |-> 0,
              cut |-> NoCrash])

\* power is lost during a call, after cut of its sector writes (after the call
\* if it makes no more than that), and the kernel boots again
FsCrash(call, path, cut, r) ==
    With(Reboot(r.s.disk), LAMBDA m :
    Returns(m, [op |-> "crash", during |-> call, path |-> path, cut |-> cut, ret |-> m.ok]))

FsCrashInTouch(path, cut) ==
    FsCrash("touch", path, cut, fs_touch(FsState(NoFail, cut), path))

FsCrashInMkdir(path, cut) ==
    FsCrash("mkdir", path, cut, fs_mkdir(FsState(NoFail, cut), path))

FsCrashInWrite(path, offset, buffer, truncate, cut) ==
    FsCrash("write", path, cut,
            fs_write(FsState(NoFail, cut), path, offset, buffer, Len(buffer), truncate))

\* fewer than calls filesystem calls have been made; the process manager and
\* the dispatcher are left alone
FsCallDue(calls) ==
    /\ g_fscalls < calls
    /\ UNCHANGED <<procVars, intrVars, kbdVars, g_fslog>>

\* the calls, with the device failing one of the transfers in fails, fs_write
\* and fs_read given these offsets and fs_write these buffers
FsCalls(fails, offsets, buffers, calls) ==
    \/ \E failAt \in fails : FsCallDue(calls) /\ FsMount(failAt)
    \/ \E path \in Paths, failAt \in fails : FsCallDue(calls) /\ FsTouch(path, failAt)
    \/ \E path \in Paths, failAt \in fails : FsCallDue(calls) /\ FsMkdir(path, failAt)
    \/ \E path \in Paths, offset \in offsets, failAt \in fails :
          FsCallDue(calls) /\ FsRead(path, offset, MaxWrite, failAt)
    \/ \E path \in Paths, offset \in offsets, buffer \in buffers, truncate \in BOOLEAN,
          failAt \in fails : FsCallDue(calls) /\ FsWrite(path, offset, buffer, truncate, failAt)

FsCrashes(offsets, buffers, calls) ==
    \/ \E path \in Paths, cut \in 0 .. MaxCut : FsCallDue(calls) /\ FsCrashInTouch(path, cut)
    \/ \E path \in Paths, cut \in 0 .. MaxCut : FsCallDue(calls) /\ FsCrashInMkdir(path, cut)
    \/ \E path \in Paths, offset \in offsets, buffer \in buffers, truncate \in BOOLEAN,
          cut \in 0 .. MaxCut :
          FsCallDue(calls) /\ FsCrashInWrite(path, offset, buffer, truncate, cut)


(***************************************************************************)
(* The filesystem calls on a directory tree                                *)
(***************************************************************************)
\* the tree is followed through MaxTreeCalls calls
MaxTreeCalls == 5

\* "/a", "/a/b", "/a/c" and "/a/b/../b"
PathA == <<CHAR_SLASH, 97>>
PathAB == PathA \o <<CHAR_SLASH, 98>>
PathAC == PathA \o <<CHAR_SLASH, 99>>
PathABUpB == PathAB \o <<CHAR_SLASH, CHAR_DOT, CHAR_DOT, CHAR_SLASH, 98>>
TreePaths == {PathA, PathAB, PathAC, PathABUpB}

\* the offsets fs_write and fs_read are given on the tree
TreeOffsets == {0, 1, ATA_SECTOR_SIZE}
TreeWriteOffsets == {0, 1}

\* the byte strings fs_write is given on the tree: one of them is longer than a
\* sector
TreeBuffers == Buffers \cup {[j \in 1 .. ATA_SECTOR_SIZE + 1 |-> 1 + (j % 2)]}

FsList(path, cb_null, failAt) ==
    With(fs_list(FsState(failAt, NoCrash), path, cb_null), LAMBDA r :
    Returns(r, [op |-> "list", path |-> path, cb_null |-> cb_null, ret |-> r.ok,
                entries |-> r.entries, failed |-> Failed(r.s)]))

\* resolved: what luxfs_resolve makes of the path
FsStatPath(path, out_null, failAt) ==
    With(fs_stat_path(FsState(failAt, NoCrash), path, out_null), LAMBDA r :
    Returns(r, [op |-> "stat", path |-> path, out_null |-> out_null, ret |-> r.ok,
                is_dir |-> r.is_dir, size |-> r.size,
                failed |-> Failed(r.s),
                resolved |-> With(luxfs_resolve(FsState(NoFail, NoCrash), path),
                                  LAMBDA e : [ok |-> e.ok, inode |-> e.inode])]))

\* a call of the tree is due
FsTreeCallDue ==
    /\ g_fscalls < MaxTreeCalls
    /\ UNCHANGED <<procVars, intrVars, kbdVars>>

\* the log of the tree: fs_touch, fs_mkdir and fs_write are logged when they
\* return true
KeepLog ==
    g_fslog' = IF g_fsop'.ret /\ g_fsop'.op \in {"touch", "mkdir", "write"}
               THEN Append(g_fslog, g_fsop')
               ELSE g_fslog

FsTreeNext ==
    \/ FsTreeCallDue /\ FsMount(NoFail) /\ KeepLog
    \/ \E path \in TreePaths : FsTreeCallDue /\ FsTouch(path, NoFail) /\ KeepLog
    \/ \E path \in TreePaths : FsTreeCallDue /\ FsMkdir(path, NoFail) /\ KeepLog
    \/ \E path \in TreePaths, offset \in TreeOffsets, length \in 0 .. MaxWrite :
          FsTreeCallDue /\ FsRead(path, offset, length, NoFail) /\ KeepLog
    \/ \E path \in TreePaths, offset \in TreeWriteOffsets, buffer \in TreeBuffers,
          truncate \in BOOLEAN :
          FsTreeCallDue /\ FsWrite(path, offset, buffer, truncate, NoFail) /\ KeepLog
    \/ \E path \in TreePaths \cup {NullString}, cb_null \in BOOLEAN :
          FsTreeCallDue /\ FsList(path, cb_null, NoFail) /\ KeepLog
    \/ \E path \in TreePaths \cup {NullString}, out_null \in BOOLEAN :
          FsTreeCallDue /\ FsStatPath(path, out_null, NoFail) /\ KeepLog

\* the transfers of a call that the device may fail: the first MaxFaults
MaxFaults == 8
\* fewer than MaxFaultyCalls calls have been made
MaxFaultyCalls == 4

\* the paths of the calls on the failing device: /a, /b and /a/b
FaultyPaths == Paths \cup {PathAB}

\* no failure, one, or two at different transfers
FaultPairs ==
    {<<NoFail, NoFail>>} \cup {<<f, NoFail>> : f \in 0 .. MaxFaults}
        \cup {p \in (0 .. MaxFaults) \X (0 .. MaxFaults) : p[1] < p[2]}

\* fs_mount, and fs_touch and fs_mkdir on a device that may fail up to two
\* transfers of each call
FsFaultyNext ==
    \/ FsCallDue(MaxFaultyCalls) /\ FsMount(NoFail)
    \/ \E path \in FaultyPaths, p \in FaultPairs :
          FsCallDue(MaxFaultyCalls) /\ FsTouchFailing(path, p[1], p[2])
    \/ \E path \in FaultyPaths, p \in FaultPairs :
          FsCallDue(MaxFaultyCalls) /\ FsMkdirFailing(path, p[1], p[2])
\* g_fs at load time (all bytes zero) over a blank disk
BlankDisk ==
    [meta |-> [b \in 0 .. LUXFS_DATA_BLOCK_START - 1 |->
                 IF b = LUXFS_SUPER_BLOCK THEN ZeroedSuper
                 ELSE IF b = LUXFS_INODE_BITMAP_BLOCK THEN ZeroedInodeBitmap
                 ELSE IF b = LUXFS_BLOCK_BITMAP_BLOCK THEN ZeroedBlockBitmap
                 ELSE [i \in InodesOfBlock(b - LUXFS_INODE_TABLE_START) |-> ZeroedInode]],
     data |-> [b \in DataBlockIds |-> ZeroedSector]]

FsInit ==
    /\ g_fs = [mounted |-> FALSE, super |-> ZeroedSuper,
               inodes |-> [i \in InodeIds |-> ZeroedInode],
               inode_bitmap |-> ZeroedInodeBitmap, block_bitmap |-> ZeroedBlockBitmap]
    /\ disk = BlankDisk
    /\ g_fsop = [op |-> "init"]
    /\ g_fscalls = 0
    /\ g_fslog = << >>

(***************************************************************************)
(* PS/2 keyboard driver (kernel/drivers/input/keyboard.c)                  *)
(*                                                                         *)
(* As for the filesystem, each C function is an operator from a state k to *)
(* the state it leaves (and its result).  k carries the statics of         *)
(* keyboard.c, the statics of the dispatcher (subs, ready), the bytes the  *)
(* controller holds (port), and what the call in progress has done so far: *)
(*   queued  the symbols it stored in the event queue                      *)
(*   calls   the handlers interrupt_raise invoked for it                   *)
(*   raises  per interrupt_raise it made, what it had queued by then       *)
(* A character is the unsigned value of its byte.                          *)
(***************************************************************************)
\* keyboard.c:147 KEYBOARD_EVENT_CAPACITY is 64
KEYBOARD_EVENT_CAPACITY == 2
\* the controller holds at most MaxPort scancodes that nobody has read
MaxPort == 2
\* the keyboard is followed through MaxKbdSteps steps
MaxKbdSteps == 6

\* keyboard.c: layout_en_us, the characters as unsigned bytes; entry s + 1 of a map is
\* the character of scancode s
layout_en_us ==
    [normal |-> <<
       0, 27, 49, 50, 51, 52, 53, 54, 55, 56, 57, 48, 45, 61, 8, 9,
       113, 119, 101, 114, 116, 121, 117, 105, 111, 112, 91, 93, 10, 0, 97, 115,
       100, 102, 103, 104, 106, 107, 108, 59, 39, 96, 0, 92, 122, 120, 99, 118,
       98, 110, 109, 44, 46, 47, 0, 42, 0, 32, 0, 0, 0, 0, 0, 0,
       0, 0, 0, 0, 0, 0, 0, 55, 56, 57, 45, 52, 53, 54, 43, 49,
       50, 51, 48, 46, 0, 0, 0, 0, 0, 0, 0, 0, 0, 0, 0, 0,
       0, 0, 0, 0, 0, 0, 0, 0, 0, 0, 0, 0, 0, 0, 0, 0,
       0, 0, 0, 0, 0, 0, 0, 0, 0, 0, 0, 0, 0, 0, 0, 0 >>,
     shifted |-> <<
       0, 27, 33, 64, 35, 36, 37, 94, 38, 42, 40, 41, 95, 43, 8, 9,
       81, 87, 69, 82, 84, 89, 85, 73, 79, 80, 123, 125, 10, 0, 65, 83,
       68, 70, 71, 72, 74, 75, 76, 58, 34, 126, 0, 124, 90, 88, 67, 86,
       66, 78, 77, 60, 62, 63, 0, 42, 0, 32, 0, 0, 0, 0, 0, 0,
       0, 0, 0, 0, 0, 0, 0, 55, 56, 57, 45, 52, 53, 54, 43, 49,
       50, 51, 48, 46, 0, 0, 0, 0, 0, 0, 0, 0, 0, 0, 0, 0,
       0, 0, 0, 0, 0, 0, 0, 0, 0, 0, 0, 0, 0, 0, 0, 0,
       0, 0, 0, 0, 0, 0, 0, 0, 0, 0, 0, 0, 0, 0, 0, 0 >>,
     altgr |-> <<
       0, 0, 0, 0, 0, 0, 0, 0, 0, 0, 0, 0, 0, 0, 0, 0,
       0, 0, 0, 0, 0, 0, 0, 0, 0, 0, 0, 0, 0, 0, 0, 0,
       0, 0, 0, 0, 0, 0, 0, 0, 0, 0, 0, 0, 0, 0, 0, 0,
       0, 0, 0, 0, 0, 0, 0, 0, 0, 0, 0, 0, 0, 0, 0, 0,
       0, 0, 0, 0, 0, 0, 0, 0, 0, 0, 0, 0, 0, 0, 0, 0,
       0, 0, 0, 0, 0, 0, 0, 0, 0, 0, 0, 0, 0, 0, 0, 0,
       0, 0, 0, 0, 0, 0, 0, 0, 0, 0, 0, 0, 0, 0, 0, 0,
       0, 0, 0, 0, 0, 0, 0, 0, 0, 0, 0, 0, 0, 0, 0, 0 >>]

\* keyboard.c: layout_de_de, the characters as unsigned bytes; entry s + 1 of a map is
\* the character of scancode s
layout_de_de ==
    [normal |-> <<
       0, 27, 49, 50, 51, 52, 53, 54, 55, 56, 57, 48, 223, 180, 8, 9,
       113, 119, 101, 114, 116, 122, 117, 105, 111, 112, 252, 43, 10, 0, 97, 115,
       100, 102, 103, 104, 106, 107, 108, 246, 228, 94, 0, 35, 121, 120, 99, 118,
       98, 110, 109, 44, 46, 45, 0, 42, 0, 32, 0, 0, 0, 0, 0, 0,
       0, 0, 0, 0, 0, 0, 0, 55, 56, 57, 45, 52, 53, 54, 43, 49,
       50, 51, 48, 44, 0, 0, 60, 0, 0, 0, 0, 0, 0, 0, 0, 0,
       0, 0, 0, 0, 0, 0, 0, 0, 0, 0, 0, 0, 0, 0, 0, 0,
       0, 0, 0, 0, 0, 0, 0, 0, 0, 0, 0, 0, 0, 0, 0, 0 >>,
     shifted |-> <<
       0, 27, 33, 34, 167, 36, 37, 38, 47, 40, 41, 61, 63, 96, 8, 9,
       81, 87, 69, 82, 84, 90, 85, 73, 79, 80, 220, 42, 10, 0, 65, 83,
       68, 70, 71, 72, 74, 75, 76, 214, 196, 176, 0, 39, 89, 88, 67, 86,
       66, 78, 77, 59, 58, 95, 0, 42, 0, 32, 0, 0, 0, 0, 0, 0,
       0, 0, 0, 0, 0, 0, 0, 55, 56, 57, 45, 52, 53, 54, 43, 49,
       50, 51, 48, 44, 0, 0, 62, 0, 0, 0, 0, 0, 0, 0, 0, 0,
       0, 0, 0, 0, 0, 0, 0, 0, 0, 0, 0, 0, 0, 0, 0, 0,
       0, 0, 0, 0, 0, 0, 0, 0, 0, 0, 0, 0, 0, 0, 0, 0 >>,
     altgr |-> <<
       0, 0, 0, 178, 179, 0, 0, 0, 123, 91, 93, 125, 92, 0, 0, 0,
       64, 0, 128, 0, 0, 0, 0, 0, 0, 0, 0, 126, 0, 0, 0, 0,
       0, 0, 0, 0, 0, 0, 0, 0, 0, 0, 0, 0, 0, 0, 0, 0,
       0, 0, 181, 0, 0, 0, 0, 0, 0, 0, 0, 0, 0, 0, 0, 0,
       0, 0, 0, 0, 0, 0, 0, 0, 0, 0, 0, 0, 0, 0, 0, 0,
       0, 0, 0, 0, 0, 0, 124, 0, 0, 0, 0, 0, 0, 0, 0, 0,
       0, 0, 0, 0, 0, 0, 0, 0, 0, 0, 0, 0, 0, 0, 0, 0,
       0, 0, 0, 0, 0, 0, 0, 0, 0, 0, 0, 0, 0, 0, 0, 0 >>]

\* keyboard.c:12
KEYBOARD_MAP_SIZE == 128
\* keyboard.h:13-14
KEYBOARD_LAYOUT_EN_US == 0
KEYBOARD_LAYOUT_DE_DE == 1
\* keyboard.h:24-27
KEYBOARD_MOD_SHIFT == 1
KEYBOARD_MOD_CTRL == 2
KEYBOARD_MOD_ALTGR == 4
KEYBOARD_MOD_CAPSLOCK == 8
\* the byte 0xE0 that announces an extended scancode
SCANCODE_EXTENDED == 224
\* ASCII ETX, the character of Ctrl-C
CHAR_ETX == 3

QueueSlots == 0 .. KEYBOARD_EVENT_CAPACITY - 1

\* a struct keyboard_event of zero bytes
ZeroedEvent == [symbol |-> 0, modifiers |-> 0, pressed |-> FALSE]

\* the layout current_layout points to
CurrentLayout(k) ==
    IF k.current_layout = KEYBOARD_LAYOUT_DE_DE THEN layout_de_de ELSE layout_en_us

\* c is within 'a' .. 'z' or 'A' .. 'Z'
IsAsciiLetter(c) == (c >= 97 /\ c <= 122) \/ (c >= 65 /\ c <= 90)

is_letter_char(c) == IsAsciiLetter(c) \/ c \in {228, 196, 246, 214, 252, 220}

translate_scancode(k, scancode) ==
    IF scancode >= KEYBOARD_MAP_SIZE THEN 0 ELSE
    LET normal == CurrentLayout(k).normal[scancode + 1]
        shifted == CurrentLayout(k).shifted[scancode + 1]
        altgr == CurrentLayout(k).altgr[scancode + 1]
        shift_active == k.left_shift_pressed \/ k.right_shift_pressed
        use_shifted == IF k.caps_lock_active /\ is_letter_char(normal)
                       THEN ~shift_active ELSE shift_active
    IN  IF k.alt_gr_active /\ altgr # 0 THEN altgr
        ELSE IF use_shifted /\ shifted # 0 THEN shifted
        ELSE normal

\* KEYBOARD_KEY_ARROW_UP .. KEYBOARD_KEY_END are (char)0x80 .. (char)0x86
translate_extended_scancode(scancode) ==
    CASE scancode = 72 -> 128
      [] scancode = 80 -> 129
      [] scancode = 75 -> 130
      [] scancode = 77 -> 131
      [] scancode = 83 -> 132
      [] scancode = 71 -> 133
      [] scancode = 79 -> 134
      [] OTHER -> 0

control_modifier_active(k) == k.left_ctrl_pressed \/ k.right_ctrl_pressed

is_control_mappable(c) == IsAsciiLetter(c)

apply_control_mapping(c) ==
    IF c >= 97 /\ c <= 122 THEN c - 97 + 1
    ELSE IF c >= 65 /\ c <= 90 THEN c - 65 + 1
    ELSE c

keyboard_current_modifiers(k) ==
    (IF k.left_shift_pressed \/ k.right_shift_pressed THEN KEYBOARD_MOD_SHIFT ELSE 0)
    + (IF k.left_ctrl_pressed \/ k.right_ctrl_pressed THEN KEYBOARD_MOD_CTRL ELSE 0)
    + (IF k.alt_gr_active THEN KEYBOARD_MOD_ALTGR ELSE 0)
    + (IF k.caps_lock_active THEN KEYBOARD_MOD_CAPSLOCK ELSE 0)

\* the call of interrupt_raise in keyboard_queue_event: calls gathers the
\* handlers the dispatcher invoked, raises what the call had queued at each raise
RaiseCtrlC(k) ==
    With(interrupt_raise([subs |-> k.subs, ready |-> k.ready], INTERRUPT_SIGNAL_CTRL_C),
         LAMBDA r :
    [k EXCEPT !.subs = r.st.subs, !.ready = r.st.ready, !.calls = @ \o r.calls,
              !.raises = Append(@, k.queued)])

\* keyboard_queue_event that overwrites the slot at event_head without dropping
\* the oldest event first
keyboard_queue_event_without_drop(k, symbol) ==
    IF symbol = 0 THEN k ELSE
    With([k EXCEPT !.event_queue[k.event_head] =
                       [symbol |-> symbol, modifiers |-> keyboard_current_modifiers(k),
                        pressed |-> TRUE],
                   !.event_head = (@ + 1) % KEYBOARD_EVENT_CAPACITY,
                   !.event_count = @ + 1,
                   !.queued = Append(@, symbol)], LAMBDA k2 :
    IF symbol = CHAR_ETX THEN RaiseCtrlC(k2) ELSE k2)

\* keyboard_queue_event that raises Ctrl-C whatever the symbol
keyboard_queue_event_raising_always(k, symbol) ==
    IF symbol = 0 THEN k ELSE
    With(IF k.event_count >= KEYBOARD_EVENT_CAPACITY
         THEN [k EXCEPT !.event_tail = (@ + 1) % KEYBOARD_EVENT_CAPACITY,
                        !.event_count = @ - 1]
         ELSE k, LAMBDA k1 :
    RaiseCtrlC([k1 EXCEPT !.event_queue[k1.event_head] =
                              [symbol |-> symbol,
                               modifiers |-> keyboard_current_modifiers(k1),
                               pressed |-> TRUE],
                          !.event_head = (@ + 1) % KEYBOARD_EVENT_CAPACITY,
                          !.event_count = @ + 1,
                          !.queued = Append(@, symbol)]))

\* queued gathers the symbols the call stored in the queue
keyboard_queue_event(k, symbol) ==
    IF symbol = 0 THEN k ELSE
    With(IF k.event_count >= KEYBOARD_EVENT_CAPACITY
         THEN [k EXCEPT !.event_tail = (@ + 1) % KEYBOARD_EVENT_CAPACITY,
                        !.event_count = @ - 1]
         ELSE k, LAMBDA k1 :
    With([k1 EXCEPT !.event_queue[k1.event_head] =
                        [symbol |-> symbol, modifiers |-> keyboard_current_modifiers(k1),
                         pressed |-> TRUE],
                    !.event_head = (@ + 1) % KEYBOARD_EVENT_CAPACITY,
                    !.event_count = @ + 1,
                    !.queued = Append(@, symbol)], LAMBDA k2 :
    IF symbol = CHAR_ETX THEN RaiseCtrlC(k2) ELSE k2))

\* event_null: the caller passed a null pointer
keyboard_dequeue_event(k, event_null) ==
    IF k.event_count = 0 \/ event_null THEN [k |-> k, ok |-> FALSE, event |-> ZeroedEvent]
    ELSE [k |-> [k EXCEPT !.event_tail = (@ + 1) % KEYBOARD_EVENT_CAPACITY,
                          !.event_count = @ - 1],
          ok |-> TRUE, event |-> k.event_queue[k.event_tail]]

keyboard_set_layout(k, layout) ==
    [k EXCEPT !.current_layout = IF layout = KEYBOARD_LAYOUT_DE_DE
                                 THEN KEYBOARD_LAYOUT_DE_DE ELSE KEYBOARD_LAYOUT_EN_US]

\* the branch of keyboard_process_scancode for a break code (bit 0x80 set)
ProcessBreakCode(k, make_code, is_extended) ==
    IF make_code = 42 THEN [k EXCEPT !.left_shift_pressed = FALSE]
    ELSE IF make_code = 54 THEN [k EXCEPT !.right_shift_pressed = FALSE]
    ELSE IF make_code = 56 /\ is_extended THEN [k EXCEPT !.alt_gr_active = FALSE]
    ELSE IF make_code = 29
         THEN IF is_extended THEN [k EXCEPT !.right_ctrl_pressed = FALSE]
                             ELSE [k EXCEPT !.left_ctrl_pressed = FALSE]
    ELSE k

\* the end of keyboard_process_scancode: a symbol other than 0 is stored in
\* *out_char and queued
Produce(k, symbol) ==
    IF symbol = 0 THEN [k |-> k, ok |-> FALSE, out_char |-> 0]
    ELSE [k |-> keyboard_queue_event(k, symbol), ok |-> TRUE, out_char |-> symbol]

\* [k, ok, out_char]; out_char is what *out_char was given when ok
keyboard_process_scancode(k, scancode, is_extended) ==
    IF scancode >= 128
    THEN [k |-> ProcessBreakCode(k, scancode % 128, is_extended), ok |-> FALSE, out_char |-> 0]
    ELSE IF is_extended
    THEN IF scancode = 56
         THEN [k |-> [k EXCEPT !.alt_gr_active = TRUE], ok |-> FALSE, out_char |-> 0]
         ELSE IF scancode = 29
         THEN [k |-> [k EXCEPT !.right_ctrl_pressed = TRUE], ok |-> FALSE, out_char |-> 0]
         ELSE Produce(k, translate_extended_scancode(scancode))
    ELSE IF scancode = 42
    THEN [k |-> [k EXCEPT !.left_shift_pressed = TRUE], ok |-> FALSE, out_char |-> 0]
    ELSE IF scancode = 54
    THEN [k |-> [k EXCEPT !.right_shift_pressed = TRUE], ok |-> FALSE, out_char |-> 0]
    ELSE IF scancode = 29
    THEN [k |-> [k EXCEPT !.left_ctrl_pressed = TRUE], ok |-> FALSE, out_char |-> 0]
    ELSE IF scancode = 56
    THEN [k |-> k, ok |-> FALSE, out_char |-> 0]
    ELSE IF scancode = 58
    THEN [k |-> [k EXCEPT !.caps_lock_active = ~@], ok |-> FALSE, out_char |-> 0]
    ELSE With(translate_scancode(k, scancode), LAMBDA translated :
         IF translated = 0 THEN [k |-> k, ok |-> FALSE, out_char |-> 0]
         ELSE IF control_modifier_active(k) /\ is_control_mappable(translated)
              THEN Produce(k, apply_control_mapping(translated))
              ELSE Produce(k, translated))

\* the loop of keyboard_scan_symbol: the status port reports a byte while the
\* controller's buffer holds one, the data port hands out the oldest
RECURSIVE ScanLoop(_)
ScanLoop(k) ==
    IF k.port = << >> THEN [k |-> k, ok |-> FALSE, out_char |-> 0] ELSE
    With([k EXCEPT !.port = Tail(@)], LAMBDA k1 :
    IF Head(k.port) = SCANCODE_EXTENDED
    THEN ScanLoop([k1 EXCEPT !.extended_scancode_pending = TRUE])
    ELSE With(keyboard_process_scancode([k1 EXCEPT !.extended_scancode_pending = FALSE],
                                        Head(k.port), k.extended_scancode_pending),
              LAMBDA r :
         IF r.ok THEN r ELSE ScanLoop(r.k)))

\* keyboard_scan_symbol that leaves extended_scancode_pending set
keyboard_scan_symbol_keeping_prefix(k, out_null) ==
    IF out_null \/ k.port = << >> THEN [k |-> k, ok |-> FALSE, out_char |-> 0] ELSE
    With([k EXCEPT !.port = Tail(@)], LAMBDA k1 :
    IF Head(k.port) = SCANCODE_EXTENDED
    THEN ScanLoop([k1 EXCEPT !.extended_scancode_pending = TRUE])
    ELSE With(keyboard_process_scancode(k1, Head(k.port), k.extended_scancode_pending),
              LAMBDA r :
         IF r.ok THEN r ELSE ScanLoop(r.k)))

\* out_null: the caller passed a null out_char
keyboard_scan_symbol(k, out_null) ==
    IF out_null THEN [k |-> k, ok |-> FALSE, out_char |-> 0] ELSE ScanLoop(k)

keyboard_poll_char(k, out_null) == keyboard_scan_symbol(k, out_null)

\* [k, ok, event, unused]; unused is what the scan stored in the local of that
\* name (0: nothing)
keyboard_poll_event(k, event_null) ==
    IF event_null THEN [k |-> k, ok |-> FALSE, event |-> ZeroedEvent, unused |-> 0] ELSE
    With(keyboard_scan_symbol(k, FALSE), LAMBDA s :
    With(keyboard_dequeue_event(s.k, FALSE), LAMBDA d :
    [k |-> d.k, ok |-> d.ok, event |-> d.event, unused |-> IF s.ok THEN s.out_char ELSE 0]))

\* out_char may be null: the character then goes to a local dummy
keyboard_process_scancode_irq(k, scancode) ==
    IF scancode = SCANCODE_EXTENDED
    THEN [k |-> [k EXCEPT !.extended_scancode_pending = TRUE], ok |-> FALSE, out_char |-> 0]
    ELSE keyboard_process_scancode([k EXCEPT !.extended_scancode_pending = FALSE],
                                   scancode, k.extended_scancode_pending)


(***************************************************************************)
(* The shell's side of Ctrl-C (kernel/shell/shell.c): the handler it       *)
(* subscribes, the polling of the keyboard while a command runs            *)
(***************************************************************************)
\* shell.c:14 INPUT_BUFFER_SIZE is 128
INPUT_BUFFER_SIZE == 2
\* shell.c:17 MAX_PIPE_SEGMENTS is 4
MAX_PIPE_SEGMENTS == 2
\* shell_interrupt_handler as a handler of the dispatcher: a function of its own
SHELL_INTERRUPT_HANDLER == NumHandlers + 1
\* '\n', which ends a command line
CHAR_NEWLINE == 10

\* where shell_run stands
SH_BOOT == "not started"
SH_LOOP == "top of the loop"
SH_READ == "in read_line"
SH_START == "in execute_pipeline, before a stage"
SH_STAGE == "in the handler of a stage"

\* the statics of shell.c at load time, shell_run not yet called.  Beside the
\* statics: pc, where shell_run stands; segment_count and i of
\* execute_pipeline; started, the stages of the pipeline whose handler has
\* been called; hit, the stage during which Ctrl-C was first produced (NULL:
\* none); fresh, no Ctrl-C has been produced since shell_interrupt_reset_state;
\* cancelled_at, the stage after which the last pipeline was given up for a
\* requested interrupt (NULL: it was not).
ShellAtLoad ==
    [interrupt_requested |-> FALSE, interrupt_announced |-> FALSE,
     interrupt_subscription |-> -1, pending_input |-> << >>,
     pc |-> SH_BOOT, segment_count |-> 0, i |-> 0,
     started |-> {}, hit |-> NULL, fresh |-> TRUE, cancelled_at |-> NULL]

\* shell_interrupt_handler ignoring the signal
ShellSignalled_ignoring(sh, k) ==
    IF k.raises = << >> THEN sh ELSE
    [sh EXCEPT !.fresh = FALSE,
               !.hit = IF @ = NULL /\ sh.pc = SH_STAGE THEN sh.i ELSE @]

\* the shell after the keyboard call that left k: interrupt_raise has invoked
\* shell_interrupt_handler if the call produced Ctrl-C and the handler is
\* subscribed
ShellSignalled(sh, k) ==
    LET invoked == \E c \in 1 .. Len(k.calls) :
                       /\ k.calls[c].handler = SHELL_INTERRUPT_HANDLER
                       /\ k.calls[c].signal = INTERRUPT_SIGNAL_CTRL_C
    IN
    IF k.raises = << >> THEN sh ELSE
    [sh EXCEPT !.interrupt_requested = @ \/ invoked,
               !.fresh = FALSE,
               !.hit = IF @ = NULL /\ sh.pc = SH_STAGE THEN sh.i ELSE @]

pending_input_push(sh, c) ==
    [sh EXCEPT !.pending_input =
        Append(IF Len(@) >= INPUT_BUFFER_SIZE THEN Tail(@) ELSE @, c)]

\* [sh, k]: k.calls and k.raises are emptied after each keyboard_poll_char, the
\* shell having been signalled
RECURSIVE collect_background_input(_, _)
collect_background_input(sh, k) ==
    With(keyboard_poll_char(k, FALSE), LAMBDA r :
    With(ShellSignalled(sh, r.k), LAMBDA sh1 :
    With([r.k EXCEPT !.calls = << >>, !.raises = << >>], LAMBDA k1 :
    IF ~r.ok THEN [sh |-> sh1, k |-> k1]
    ELSE IF r.out_char = CHAR_ETX THEN collect_background_input(sh1, k1)
    ELSE collect_background_input(pending_input_push(sh1, r.out_char), k1))))

\* [sh, k, ret]
shell_interrupt_poll(sh, k) ==
    With(collect_background_input(sh, k), LAMBDA c :
    [sh |-> IF c.sh.interrupt_requested /\ ~c.sh.interrupt_announced
            THEN [c.sh EXCEPT !.interrupt_announced = TRUE] ELSE c.sh,
     k |-> c.k, ret |-> c.sh.interrupt_requested])

shell_interrupt_reset_state(sh) ==
    [sh EXCEPT !.interrupt_requested = FALSE, !.interrupt_announced = FALSE]

shell_command_should_stop(sh) == sh.interrupt_requested

(***************************************************************************)
(* keyboard_poll_event called in normal context with interrupts enabled.   *)
(* keyboard_dequeue_event (keyboard.c:354-364) has no critical section:    *)
(* IRQ1 may be taken between any two of its accesses to event_count,       *)
(* event_queue and event_tail.  The statics are not volatile, so a build   *)
(* may keep the event_tail it loaded for the copy and the event_count it   *)
(* loaded for the test in registers and store from them, or load them      *)
(* again; both are followed.                                               *)
(***************************************************************************)
\* where the caller stands
DQ_IDLE == "not in keyboard_poll_event"
DQ_TEST == "before the test of event_count"
DQ_COPY == "before the copy of event_queue[event_tail]"
DQ_TAIL == "before the store to event_tail"
DQ_COUNT == "before the store to event_count"

\* no call in progress.  event is *event, tail and count are the values loaded
\* from event_tail and event_count, keeps_tail and keeps_count tell whether the
\* build stores from them; oldest is the symbol that was the oldest produced
\* and neither handed out nor dropped when the copy was made (0: none)
DequeueIdle ==
    [pc |-> DQ_IDLE, event |-> ZeroedEvent, tail |-> 0, count |-> 0,
     keeps_tail |-> FALSE, keeps_count |-> FALSE, oldest |-> 0]
(***************************************************************************)
(* The keyboard calls as actions                                           *)
(***************************************************************************)
\* the scancodes the controller hands out: 0xE0, left Ctrl down/up (0x1D, 0x9D),
\* left Shift down (0x2A), C (0x2E), keypad 8 or, after 0xE0, arrow up (0x48)
Scancodes == {SCANCODE_EXTENDED, 29, 157, 42, 46, 72}

\* the state a call starts from: the statics of keyboard.c and of interrupt.c,
\* and the bytes waiting in the controller
KbdState ==
    [current_layout |-> keyboard.current_layout,
     left_shift_pressed |-> keyboard.left_shift_pressed,
     right_shift_pressed |-> keyboard.right_shift_pressed,
     left_ctrl_pressed |-> keyboard.left_ctrl_pressed,
     right_ctrl_pressed |-> keyboard.right_ctrl_pressed,
     caps_lock_active |-> keyboard.caps_lock_active,
     extended_scancode_pending |-> keyboard.extended_scancode_pending,
     alt_gr_active |-> keyboard.alt_gr_active,
     event_queue |-> keyboard.event_queue, event_head |-> keyboard.event_head,
     event_tail |-> keyboard.event_tail, event_count |-> keyboard.event_count,
     port |-> ps2_buffer, subs |-> subscriptions, ready |-> dispatcher_ready,
     calls |-> << >>, raises |-> << >>, queued |-> << >>]

\* the statics of keyboard.c in k
StaticsOf(k) == [f \in DOMAIN keyboard |-> k[f]]

\* a queue of symbols given the symbols of syms, the oldest dropped when
\* KEYBOARD_EVENT_CAPACITY are held
RECURSIVE Enqueued(_, _)
Enqueued(q, syms) ==
    IF syms = << >> THEN q
    ELSE Enqueued(Append(IF Len(q) >= KEYBOARD_EVENT_CAPACITY THEN Tail(q) ELSE q, Head(syms)),
                  Tail(syms))

\* a call leaves the keyboard in state k and the shell in state sh, having
\* handed out an event or not; op records it
KbdLeaves(k, delivered, op, sh) ==
    /\ shell' = sh
    /\ keyboard' = StaticsOf(k)
    /\ ps2_buffer' = k.port
    /\ subscriptions' = k.subs
    /\ dispatcher_ready' = k.ready
    /\ g_intr' = IF k.raises = << >> THEN g_intr
                 ELSE [op |-> "raise", signal |-> INTERRUPT_SIGNAL_CTRL_C,
                       before |-> subscriptions, readyBefore |-> dispatcher_ready,
                       order |-> g_suborder, calls |-> k.calls]
    /\ g_kbdq' = IF delivered /\ Enqueued(g_kbdq, k.queued) # << >>
                 THEN Tail(Enqueued(g_kbdq, k.queued))
                 ELSE Enqueued(g_kbdq, k.queued)
    /\ g_kbd' = op
    /\ g_kbdsteps' = g_kbdsteps + 1
    /\ UNCHANGED <<g_suborder, dequeue, procVars, fsVars>>

\* a call of the keyboard driver returns: the handlers it raised have run
KbdReturns(k, delivered, op) == KbdLeaves(k, delivered, op, ShellSignalled(shell, k))

\* what every call records: the state it found and what it queued and raised
KbdRecord(k) ==
    [before |-> keyboard, subsBefore |-> subscriptions, readyBefore |-> dispatcher_ready,
     consumed |-> SubSeq(ps2_buffer, 1, Len(ps2_buffer) - Len(k.port)),
     countBefore |-> keyboard.event_count, pending |-> Enqueued(g_kbdq, k.queued),
     queued |-> k.queued, calls |-> k.calls, raises |-> k.raises]

\* the keyboard sends a byte while nobody reads: it waits in the controller
KeyArrives(scancode) ==
    /\ Len(ps2_buffer) < MaxPort
    /\ KbdReturns([KbdState EXCEPT !.port = Append(@, scancode)], FALSE,
                  [op |-> "key", scancode |-> scancode])

\* IRQ1: the controller holds the one byte scancode, keyboard_irq_handler_c
\* reads it from the data port and hands it to keyboard_process_scancode_irq
KeyboardIrq(scancode) ==
    /\ ps2_buffer = << >>
    /\ With(keyboard_process_scancode_irq(KbdState, scancode), LAMBDA r :
       KbdReturns(r.k, FALSE,
                  [op |-> "irq", scancode |-> scancode, ret |-> r.ok, out_char |-> r.out_char,
                   rec |-> KbdRecord(r.k)]))

KeyboardPollChar(out_null) ==
    With(keyboard_poll_char(KbdState, out_null), LAMBDA r :
    KbdReturns(r.k, FALSE,
               [op |-> "poll_char", out_null |-> out_null, ret |-> r.ok,
                out_char |-> r.out_char,
                rec |-> KbdRecord(r.k)]))

KeyboardPollEvent(event_null) ==
    With(keyboard_poll_event(KbdState, event_null), LAMBDA r :
    KbdReturns(r.k, r.ok,
               [op |-> "poll_event", event_null |-> event_null, ret |-> r.ok,
                event |-> r.event, unused |-> r.unused,
                rec |-> KbdRecord(r.k)]))

KeyboardSetLayout(layout) ==
    KbdReturns(keyboard_set_layout(KbdState, layout), FALSE,
               [op |-> "set_layout", layout |-> layout])

\* fewer than MaxKbdSteps steps have been made
KbdStepDue == g_kbdsteps < MaxKbdSteps

\* a dispatcher call made while the keyboard is in use
KbdDispatcherCall ==
    /\ g_kbdsteps' = g_kbdsteps + 1
    /\ g_kbd' = [op |-> "dispatcher"]
    /\ UNCHANGED <<keyboard, ps2_buffer, g_kbdq, shell, dequeue, procVars, fsVars>>

\* the keyboard as kernel() uses it: interrupts and polling, the shell
\* subscribing to and unsubscribing from Ctrl-C
KbdNext ==
    \/ \E scancode \in Scancodes : KbdStepDue /\ KeyArrives(scancode)
    \/ \E scancode \in Scancodes : KbdStepDue /\ KeyboardIrq(scancode)
    \/ \E out_null \in BOOLEAN : KbdStepDue /\ KeyboardPollChar(out_null)
    \/ \E event_null \in BOOLEAN : KbdStepDue /\ KeyboardPollEvent(event_null)
    \/ \E layout \in {KEYBOARD_LAYOUT_EN_US, KEYBOARD_LAYOUT_DE_DE} :
          KbdStepDue /\ KeyboardSetLayout(layout)
    \/ \E handler \in 1 .. NumHandlers :
          /\ KbdStepDue
          /\ InterruptSubscribe(INTERRUPT_SIGNAL_CTRL_C, handler, 0)
          /\ KbdDispatcherCall
    \/ \E id \in HandlerIds :
          KbdStepDue /\ InterruptUnsubscribe(id) /\ KbdDispatcherCall

\* the statics of keyboard.c at load time: zero bytes, the German layout
KbdInit ==
    /\ keyboard = [current_layout |-> KEYBOARD_LAYOUT_DE_DE,
                   left_shift_pressed |-> FALSE, right_shift_pressed |-> FALSE,
                   left_ctrl_pressed |-> FALSE, right_ctrl_pressed |-> FALSE,
                   caps_lock_active |-> FALSE, extended_scancode_pending |-> FALSE,
                   alt_gr_active |-> FALSE,
                   event_queue |-> [i \in QueueSlots |-> ZeroedEvent],
                   event_head |-> 0, event_tail |-> 0, event_count |-> 0]
    /\ ps2_buffer = << >>
    /\ g_kbd = [op |-> "init"]
    /\ g_kbdq = << >>
    /\ g_kbdsteps = 0
    /\ shell = ShellAtLoad
    /\ dequeue = DequeueIdle


(***************************************************************************)
(* shell_run, from the subscription to the pipelines it executes           *)
(***************************************************************************)
\* the shell is followed through MaxShellSteps steps of it and of the keyboard
MaxShellSteps == 11

\* the scancodes typed at the shell: left Ctrl down/up (0x1D, 0x9D), C (0x2E),
\* Enter (0x1C)
ShellScancodes == {29, 157, 46, 28}

ShellStepDue == g_kbdsteps < MaxShellSteps

\* a step of the shell that leaves the keyboard alone
ShellLeaves(sh, call) ==
    KbdLeaves(KbdState, FALSE, [op |-> "shell", call |-> call], sh)

\* shell_run up to its loop: the subscription to Ctrl-C
ShellRun ==
    LET r == interrupt_subscribe(IntrState, INTERRUPT_SIGNAL_CTRL_C,
                                 SHELL_INTERRUPT_HANDLER, 0)
        subscribes == shell.interrupt_subscription < 0
    IN
    /\ shell.pc = SH_BOOT
    /\ shell' = [shell EXCEPT !.interrupt_subscription = IF subscribes THEN r.ret ELSE @,
                              !.pc = SH_LOOP]
    /\ subscriptions' = IF subscribes THEN r.st.subs ELSE subscriptions
    /\ dispatcher_ready' = IF subscribes THEN r.st.ready ELSE dispatcher_ready
    /\ g_intr' = [op |-> "subscribe", signal |-> INTERRUPT_SIGNAL_CTRL_C,
                  handler |-> SHELL_INTERRUPT_HANDLER, context |-> 0,
                  before |-> subscriptions, ret |-> r.ret]
    /\ g_suborder' = IF subscribes /\ r.ret >= 0 THEN Append(Without(g_suborder, r.ret), r.ret)
                     ELSE g_suborder
    /\ g_kbd' = [op |-> "shell", call |-> "shell_run"]
    /\ g_kbdsteps' = g_kbdsteps + 1
    /\ UNCHANGED <<keyboard, ps2_buffer, g_kbdq, dequeue, procVars, fsVars>>

\* the top of the loop of shell_run: shell_interrupt_reset_state and prompt
ShellPrompt ==
    /\ shell.pc = SH_LOOP
    /\ ShellLeaves([shell_interrupt_reset_state(shell) EXCEPT
                       !.pc = SH_READ, !.started = {}, !.hit = NULL, !.fresh = TRUE],
                   "prompt")

\* the shell after read_line has taken the character c: Ctrl-C gives up the
\* line, Enter ends it (segments: the segments parse_pipeline finds in it, 0 for
\* a line that is empty or does not parse), any other character is edited in
ShellAfterChar(sh, c, segments) ==
    IF c = CHAR_ETX THEN [sh EXCEPT !.pc = SH_LOOP]
    ELSE IF c # CHAR_NEWLINE THEN sh
    ELSE IF segments = 0 THEN [sh EXCEPT !.pc = SH_LOOP]
    ELSE [sh EXCEPT !.pc = SH_START, !.segment_count = segments, !.i = 0,
                    !.cancelled_at = NULL]

\* read_line takes a character: read_char_with_pending pops the pending input
\* or, through keyboard_read_char, polls the controller
ShellReadChar(segments) ==
    /\ shell.pc = SH_READ
    /\ IF shell.pending_input # << >>
       THEN ShellLeaves(ShellAfterChar([shell EXCEPT !.pending_input = Tail(@)],
                                       Head(shell.pending_input), segments),
                        "read_line")
       ELSE /\ ps2_buffer # << >>
            /\ With(keyboard_poll_char(KbdState, FALSE), LAMBDA r :
               KbdLeaves(r.k, FALSE, [op |-> "shell", call |-> "read_line"],
                         IF r.ok
                         THEN ShellAfterChar(ShellSignalled(shell, r.k), r.out_char, segments)
                         ELSE ShellSignalled(shell, r.k)))

\* execute_pipeline at segment i: an empty segment or an unknown command ends
\* the pipeline, else the handler of the command is called
ShellStageStart(known) ==
    /\ shell.pc = SH_START
    /\ ShellLeaves(IF known
                   THEN [shell EXCEPT !.pc = SH_STAGE, !.started = @ \cup {shell.i}]
                   ELSE [shell EXCEPT !.pc = SH_LOOP],
                   "stage")

\* the command writes through shell_io_write, which polls
ShellStageWrites ==
    /\ shell.pc = SH_STAGE
    /\ With(shell_interrupt_poll(shell, KbdState), LAMBDA r :
       KbdLeaves(r.k, FALSE, [op |-> "shell", call |-> "shell_io_write"], r.sh))

\* the handler returns and execute_pipeline polls: a requested interrupt ends
\* the pipeline, else the next segment is taken if there is one
ShellStageReturns ==
    /\ shell.pc = SH_STAGE
    /\ With(shell_interrupt_poll(shell, KbdState), LAMBDA r :
       KbdLeaves(r.k, FALSE, [op |-> "shell", call |-> "execute_pipeline"],
                 IF r.ret THEN [r.sh EXCEPT !.pc = SH_LOOP, !.cancelled_at = shell.i]
                 ELSE IF shell.i + 1 < shell.segment_count
                 THEN [r.sh EXCEPT !.pc = SH_START, !.i = @ + 1]
                 ELSE [r.sh EXCEPT !.pc = SH_LOOP]))

\* the shell and the keyboard it polls and is interrupted by
ShellNext ==
    \/ ShellStepDue /\ ShellRun
    \/ ShellStepDue /\ ShellPrompt
    \/ \E segments \in 0 .. MAX_PIPE_SEGMENTS : ShellStepDue /\ ShellReadChar(segments)
    \/ \E known \in BOOLEAN : ShellStepDue /\ ShellStageStart(known)
    \/ ShellStepDue /\ ShellStageWrites
    \/ ShellStepDue /\ ShellStageReturns
    \/ \E scancode \in ShellScancodes : ShellStepDue /\ KeyArrives(scancode)
    \/ \E scancode \in ShellScancodes : ShellStepDue /\ KeyboardIrq(scancode)

(***************************************************************************)
(* The steps of keyboard_poll_event and IRQ1 between them                  *)
(***************************************************************************)
\* the caller and the interrupts are followed through MaxIrqSteps steps
MaxIrqSteps == 9

\* the keys pressed: a, s and d
IrqScancodes == {30, 31, 32}

IrqStepDue == g_kbdsteps < MaxIrqSteps

\* a step of the caller leaves the statics k, its own state dq and the symbols
\* q still to be handed out
DequeueStep(k, dq, q) ==
    /\ keyboard' = k
    /\ dequeue' = dq
    /\ g_kbdq' = q
    /\ g_kbd' = [op |-> "dequeue", at |-> dequeue.pc, ret |-> dq.pc = DQ_IDLE /\ dq.count # 0,
                 event |-> dq.event]
    /\ g_kbdsteps' = g_kbdsteps + 1
    /\ UNCHANGED <<ps2_buffer, shell, procVars, intrVars, fsVars>>

\* keyboard_poll_event(event) with event not null: keyboard_scan_symbol finds
\* the controller empty (keyboard.c:484-486), keyboard_dequeue_event is entered
PollEventEnters(keeps_tail, keeps_count) ==
    /\ dequeue.pc = DQ_IDLE
    /\ ps2_buffer = << >>
    /\ DequeueStep(keyboard,
                   [DequeueIdle EXCEPT !.pc = DQ_TEST, !.keeps_tail = keeps_tail,
                                       !.keeps_count = keeps_count],
                   g_kbdq)

\* if (!event_count || !event) return false;
DequeueTests ==
    /\ dequeue.pc = DQ_TEST
    /\ DequeueStep(keyboard,
                   [dequeue EXCEPT !.count = keyboard.event_count,
                                   !.pc = IF keyboard.event_count = 0 THEN DQ_IDLE ELSE DQ_COPY],
                   g_kbdq)

\* *event = event_queue[event_tail]; the event is handed out
DequeueCopies ==
    /\ dequeue.pc = DQ_COPY
    /\ DequeueStep(keyboard,
                   [dequeue EXCEPT !.tail = keyboard.event_tail,
                                   !.event = keyboard.event_queue[keyboard.event_tail],
                                   !.oldest = IF g_kbdq = << >> THEN 0 ELSE Head(g_kbdq),
                                   !.pc = DQ_TAIL],
                   IF g_kbdq = << >> THEN << >> ELSE Tail(g_kbdq))

\* event_tail = (event_tail + 1u) % KEYBOARD_EVENT_CAPACITY;
DequeueAdvances ==
    /\ dequeue.pc = DQ_TAIL
    /\ DequeueStep([keyboard EXCEPT !.event_tail =
                        ((IF dequeue.keeps_tail THEN dequeue.tail ELSE @) + 1)
                            % KEYBOARD_EVENT_CAPACITY],
                   [dequeue EXCEPT !.pc = DQ_COUNT],
                   g_kbdq)

\* --event_count; return true;  The count loaded for the test is not 0 and no
\* interrupt leaves event_count 0, so the subtraction does not wrap
DequeueCounts ==
    /\ dequeue.pc = DQ_COUNT
    /\ DequeueStep([keyboard EXCEPT !.event_count =
                        (IF dequeue.keeps_count THEN dequeue.count ELSE @) - 1],
                   [dequeue EXCEPT !.pc = DQ_IDLE],
                   g_kbdq)

KbdIrqNext ==
    \/ \E keeps_tail \in BOOLEAN, keeps_count \in BOOLEAN :
          IrqStepDue /\ PollEventEnters(keeps_tail, keeps_count)
    \/ IrqStepDue /\ DequeueTests
    \/ IrqStepDue /\ DequeueCopies
    \/ IrqStepDue /\ DequeueAdvances
    \/ IrqStepDue /\ DequeueCounts
    \/ \E scancode \in IrqScancodes : IrqStepDue /\ KeyboardIrq(scancode)
\* The table with every slot as process_free leaves a slot (pid 0, STOPPED): the
\* one state of a slot that SlotIsEmpty accepts.  process_manager_init does not
\* produce it (it leaves state READY, the enumerator 0), so that from ProcInit no
\* process is ever created; the scheduler is explored from here.
SchedInit ==
    /\ IntrInit
    /\ FsInit
    /\ KbdInit
    /\ process_table = [i \in Slots |-> [ZeroedProcess EXCEPT !.state = PROCESS_STATE_STOPPED]]
    /\ process_count_active = 0
    /\ next_pid = 1
    /\ current_process = NULL
    /\ current_process_index = 0
    /\ heap = {}
    /\ timer_ticks = 0
    /\ timer_ticks_last_process_update = 0
    /\ g_proc = [op |-> "init"]
    /\ g_sleep = [i \in Slots |-> NULL]
    /\ g_runlog = [fair |-> TRUE, picks |-> << >>]
    /\ cpu = CpuAtBoot

(***************************************************************************)
(* Specifications                                                          *)
(***************************************************************************)
\* the kernel core from its load-time state: process manager, timer, dispatcher
Init == ProcInit /\ IntrInit /\ FsInit /\ KbdInit

Next ==
    \/ ProcNext
    \/ IntrNext

Spec == Init /\ [][Next]_vars

\* the process manager and timer from a table of empty slots
SpecSched == SchedInit /\ [][ProcNext]_vars

\* the scheduler with the timer handler suspended by its own context switch
SpecTimer == SchedInit /\ [][TimerNext]_vars

\* the scheduler with the calls of a process open to the timer interrupt
SpecPreempt == SchedInit /\ [][PreemptNext]_vars

\* the dispatcher alone
SpecIntr == Init /\ [][IntrNext]_vars

\* the filesystem on a device that never fails
FsNext == FsCalls({NoFail}, Offsets, Buffers, MaxFsCalls)

SpecFs == Init /\ [][FsNext]_vars

\* the filesystem on a device that may fail one transfer of each call
FsIoNext ==
    \/ FsCalls({NoFail} \cup (0 .. MaxFailAt), FaultOffsets, FaultBuffers, MaxFaultCalls)
    \/ \E path \in Paths, failAt \in {NoFail} \cup (0 .. MaxFailAt) :
          FsCallDue(MaxFaultCalls) /\ FsList(path, FALSE, failAt)
    \/ \E path \in Paths, failAt \in {NoFail} \cup (0 .. MaxFailAt) :
          FsCallDue(MaxFaultCalls) /\ FsStatPath(path, FALSE, failAt)

SpecFsIo == Init /\ [][FsIoNext]_vars

\* the filesystem on a device that may fail two transfers of each call
SpecFsFaulty == Init /\ [][FsFaultyNext]_vars

\* the filesystem on a machine that may lose power at any sector write
FsCrashNext ==
    \/ FsCalls({NoFail}, FaultOffsets, FaultBuffers, MaxFaultCalls)
    \/ FsCrashes(FaultOffsets, FaultBuffers, MaxFaultCalls)

SpecFsCrash == Init /\ [][FsCrashNext]_vars

\* the filesystem with directories below the root, on a device that never fails
SpecFsTree == Init /\ [][FsTreeNext]_vars

\* the statics when kernel() enables interrupts (kernel.c:43): as loaded, but
\* for the dispatcher, which kernel.c:39 has initialised
BootInit ==
    /\ ProcInit
    /\ FsInit
    /\ KbdInit
    /\ subscriptions = interrupt_dispatcher_init(
                           [subs |-> [i \in HandlerIds |-> ClearedSubscription],
                            ready |-> FALSE]).subs
    /\ dispatcher_ready = TRUE
    /\ g_intr = [op |-> "init"]
    /\ g_suborder = << >>

\* the keyboard, with the dispatcher it raises Ctrl-C through
SpecKbd == BootInit /\ [][KbdNext]_vars

\* the shell as kernel() starts it, with the keyboard and the dispatcher
SpecShell == BootInit /\ [][ShellNext]_vars

\* keyboard_poll_event statement by statement, IRQ1 taken between any two
SpecKbdIrq == BootInit /\ [][KbdIrqNext]_vars

(***************************************************************************)
(* Claims about the process manager                                        *)
(***************************************************************************)
RunningSlots == {i \in Slots : process_table[i].state = PROCESS_STATE_RUNNING}

C2_CreateFailsOnlyWhenFullOrNoMemory ==
    (g_proc.op = "create" /\ ~g_proc.entryNull) =>
        IF g_proc.liveBefore = MAX_PROCESSES \/ ~g_proc.mallocOk
        THEN g_proc.ret = -1
        ELSE /\ g_proc.ret # -1
             /\ \E i \in Slots : /\ process_table[i].pid = g_proc.ret
                                 /\ process_table[i].state = PROCESS_STATE_READY

\* the slots the last n calls of the run left current
LastPicks(n) ==
    LET picks == g_runlog.picks IN
    {picks[k] : k \in (Len(picks) - n + 1) .. Len(picks)}

RaisedFor == {i \in HandlerIds : g_intr.before[i].active /\ g_intr.before[i].signal = g_intr.signal}

\* the slots of a sequence of handler calls
CallSlots(calls) == [k \in 1 .. Len(calls) |-> calls[k].slot]

\* the entries of a sequence that lie in the set, in the sequence's order
RECURSIVE Restrict(_, _)
Restrict(seq, S) ==
    IF seq = << >> THEN << >>
    ELSE IF Head(seq) \in S THEN <<Head(seq)>> \o Restrict(Tail(seq), S)
    ELSE Restrict(Tail(seq), S)

Ascending(seq) == \A k \in 1 .. (Len(seq) - 1) : seq[k] < seq[k + 1]

\* every call went to the handler of its slot, with the signal and that slot's context
CallsMatchSlots ==
    \A k \in 1 .. Len(g_intr.calls) :
        LET c == g_intr.calls[k] IN
        /\ c.handler = g_intr.before[c.slot].handler
        /\ c.context = g_intr.before[c.slot].context
        /\ c.signal = g_intr.signal

WroteFile == g_fsop.op = "write" /\ g_fsop.file # NULL

\* the direct slots a write of length bytes at offset touches
SlotsTouched(offset, length) ==
    {k \in DirectIds : length > 0 /\ k * ATA_SECTOR_SIZE < offset + length
                                  /\ (k + 1) * ATA_SECTOR_SIZE > offset}

\* the last fs_write found as many free data blocks as it had to allocate
EnoughFreeBlocks ==
    LET held == {k \in DirectIds : g_fsop.direct[k] # LUXFS_INVALID_BLOCK}
        touched == SlotsTouched(g_fsop.offset, Len(g_fsop.buffer))
    IN  IF g_fsop.truncate
        THEN Cardinality(touched) <= g_fsop.free + Cardinality({g_fsop.direct[k] : k \in held})
        ELSE Cardinality(touched \ held) <= g_fsop.free

\* the last fs_write was within the ceiling, to an existing file, with the free
\* blocks it needed (and, in every behaviour this is checked in, no I/O failure)
WriteWithinCeiling ==
    /\ WroteFile
    /\ g_fsop.offset + Len(g_fsop.buffer) <= MaxFileSize
    /\ EnoughFreeBlocks

\* fs_read, now, of as many bytes as the last fs_write wrote from where it wrote them
ReadBack ==
    fs_read(FsState(NoFail, NoCrash), g_fsop.path, g_fsop.offset, Len(g_fsop.buffer))

WroteAndReadsBack ==
    /\ g_fsop.ret
    /\ ReadBack.ok
    /\ ReadBack.data = g_fsop.buffer
    /\ ReadBack.bytes_read = Len(g_fsop.buffer)

\* C3 as claimed: for every existing file, every offset O and every byte string B
\* with O + len(B) within the ceiling, fs_write of B at O succeeds (given free
\* data blocks and no I/O failure) and fs_read of len(B) bytes from O then
\* succeeds and returns exactly B with bytes_read = len(B).
C3_WriteReadRoundTrip == WriteWithinCeiling => WroteAndReadsBack

\* C3 amended: the same for every offset O that is not beyond the end of the
\* file as the write finds it, or any O when truncate is set.
C3_WriteReadRoundTripUpToEnd ==
    WriteWithinCeiling /\ (g_fsop.truncate \/ g_fsop.offset <= g_fsop.size) => WroteAndReadsBack

\* a non-truncating write across a sector boundary inside a file has succeeded
\* and reads back
C3_Witness ==
    /\ WriteWithinCeiling
    /\ ~g_fsop.truncate
    /\ g_fsop.offset % ATA_SECTOR_SIZE # 0
    /\ g_fsop.offset < g_fsop.size
    /\ Cardinality(SlotsTouched(g_fsop.offset, Len(g_fsop.buffer))) > 1
    /\ WroteAndReadsBack

\* the inode of the in-memory table as the disk's inode table holds it
DiskInode(i) == disk.meta[LUXFS_INODE_TABLE_START + i \div LUXFS_INODES_PER_BLOCK][i]

\* C8: fs_write with offset + length beyond the ceiling returns false and applies
\* nothing: the file's size, direct pointers and data and both bitmaps (all of
\* g_fs and all of the disk) are unchanged, also when truncate is set.
C8_WriteBeyondCeilingRejected ==
    [][ (g_fsop'.op = "write" /\ g_fsop'.offset + Len(g_fsop'.buffer) > MaxFileSize)
            => (~g_fsop'.ret /\ g_fs' = g_fs /\ disk' = disk) ]_vars

\* a truncating write beyond the ceiling to a file that holds data has been refused
C8_Witness ==
    /\ WroteFile
    /\ g_fsop.offset + Len(g_fsop.buffer) > MaxFileSize
    /\ g_fsop.offset <= MaxFileSize
    /\ g_fsop.truncate
    /\ ~g_fsop.ret
    /\ g_fsop.size > 0
    /\ g_fs.inodes[g_fsop.file].size = g_fsop.size

\* the last call was fs_write with truncate set and length 0 on a non-empty file
TruncatedToNothing ==
    WroteFile /\ g_fsop.truncate /\ Len(g_fsop.buffer) = 0 /\ g_fsop.size > 0

\* the file of the last fs_write is empty, holds no block, the blocks it held
\* are clear in the block bitmap, and the disk holds its inode as memory does
FileEmptied ==
    LET inode == g_fs.inodes[g_fsop.file] IN
    /\ inode.size = 0
    /\ \A k \in DirectIds : inode.direct[k] = LUXFS_INVALID_BLOCK
    /\ \A k \in DirectIds : g_fsop.direct[k] # LUXFS_INVALID_BLOCK
                                => ~g_fs.block_bitmap[g_fsop.direct[k]]
    /\ DiskInode(g_fsop.file) = inode
    /\ \A k \in DirectIds : g_fsop.direct[k] # LUXFS_INVALID_BLOCK
                                => ~disk.meta[LUXFS_BLOCK_BITMAP_BLOCK][g_fsop.direct[k]]

\* C9 as claimed: fs_write with truncate set and length 0 on a non-empty file
\* leaves the file with size 0, every direct pointer unallocated and every block
\* it held cleared in the block bitmap, and persists the emptied inode to disk.
C9_TruncateEmptiesFile == TruncatedToNothing => FileEmptied

\* C9 amended: the same when the offset given is not beyond the ceiling; the call
\* then also returns true.
C9_TruncateWithinCeilingEmptiesFile ==
    TruncatedToNothing /\ g_fsop.offset <= MaxFileSize => g_fsop.ret /\ FileEmptied

\* a file that held more than one block has been truncated to nothing
C9_Witness ==
    /\ TruncatedToNothing
    /\ g_fsop.offset <= MaxFileSize
    /\ Cardinality({k \in DirectIds : g_fsop.direct[k] # LUXFS_INVALID_BLOCK}) > 1
    /\ g_fsop.ret
    /\ FileEmptied

\* every data block an in-memory inode points at
ReferencedBlocks ==
    {g_fs.inodes[i].direct[k] : i \in InodeIds, k \in DirectIds} \ {LUXFS_INVALID_BLOCK}

\* the direct slots of the in-memory inodes that point at a block
UsedSlots ==
    {p \in InodeIds \X DirectIds : g_fs.inodes[p[1]].direct[p[2]] # LUXFS_INVALID_BLOCK}

\* no data block is pointed at from two direct slots
NoBlockHeldTwice ==
    \A p, q \in UsedSlots :
        p # q => g_fs.inodes[p[1]].direct[p[2]] # g_fs.inodes[q[1]].direct[q[2]]

\* C4: after any sequence of filesystem calls, failed ones included, an inode
\* bitmap bit is set iff that inode is allocated (type not FREE), a block bitmap
\* bit is set iff that data block is referenced by an inode's direct pointer, and
\* no block has been handed out while it was still allocated.
C4_BitmapsMatchAllocation ==
    g_fs.mounted =>
        /\ \A i \in InodeIds :
              g_fs.inode_bitmap[i] <=> (g_fs.inodes[i].type # LUXFS_NODE_FREE)
        /\ \A b \in DataBlockIds : g_fs.block_bitmap[b] <=> (b \in ReferencedBlocks)
        /\ NoBlockHeldTwice

\* C5: after power is lost between two sector writes and the filesystem is
\* mounted from disk, every data block an inode on disk references is marked in
\* the block bitmap on disk, and so no later allocation makes two inodes
\* reference one data block.
C5_CrashNeverClaimsBlockTwice ==
    g_fs.mounted =>
        /\ \A i \in InodeIds, k \in DirectIds :
              (DiskInode(i).type # LUXFS_NODE_FREE
                   /\ DiskInode(i).direct[k] # LUXFS_INVALID_BLOCK)
                => /\ DiskInode(i).direct[k] < LUXFS_DATA_BLOCK_COUNT
                   /\ disk.meta[LUXFS_BLOCK_BITMAP_BLOCK][DiskInode(i).direct[k]]
        /\ NoBlockHeldTwice

(***************************************************************************)
(* Claims about the keyboard                                               *)
(***************************************************************************)
\* the state the last keyboard call started from, nothing done yet
StartOf(rec) ==
    [f \in DOMAIN KbdState |->
        IF f \in DOMAIN rec.before THEN rec.before[f]
        ELSE IF f = "subs" THEN rec.subsBefore
        ELSE IF f = "ready" THEN rec.readyBefore
        ELSE << >>]

\* the scancodes of seq delivered one per call to keyboard_process_scancode_irq
RECURSIVE IrqFeed(_, _)
IrqFeed(k, seq) ==
    IF seq = << >> THEN k
    ELSE IrqFeed(keyboard_process_scancode_irq(k, Head(seq)).k, Tail(seq))

\* the state had the scancodes keyboard_poll_char consumed come by IRQ instead
FedByIrq == IrqFeed(StartOf(g_kbd.rec), g_kbd.rec.consumed)

\* C11: whatever scancodes a call of keyboard_poll_char reads from the data
\* port, it leaves the event queue, the modifier flags and the extended-prefix
\* flag (and the dispatcher, and the handlers run) exactly as delivering the
\* same scancodes one per call to keyboard_process_scancode_irq would.
C11_PollEquivalentToIrq ==
    g_kbd.op = "poll_char" =>
        /\ StaticsOf(FedByIrq) = keyboard
        /\ FedByIrq.subs = subscriptions
        /\ FedByIrq.ready = dispatcher_ready
        /\ FedByIrq.calls = g_kbd.rec.calls

\* a poll that read an 0xE0 prefix and the scancode after it, and queued a key
C11_Witness ==
    /\ g_kbd.op = "poll_char"
    /\ Len(g_kbd.rec.consumed) >= 2
    /\ \E j \in 1 .. Len(g_kbd.rec.consumed) : g_kbd.rec.consumed[j] = SCANCODE_EXTENDED
    /\ g_kbd.ret
    /\ g_kbd.rec.queued # << >>

\* the events the queue holds, oldest first
QueueContents ==
    [j \in 1 .. keyboard.event_count |->
        keyboard.event_queue[(keyboard.event_tail + j - 1) % KEYBOARD_EVENT_CAPACITY]]

\* C12: the queue never holds more than KEYBOARD_EVENT_CAPACITY events; it holds
\* the symbols produced and not yet handed out, in the order produced, less the
\* oldest one for each event produced while it was full; keyboard_poll_event
\* hands out the oldest event held, and fails only when none is held.
C12_QueueKeepsNewestInOrder ==
    /\ keyboard.event_count <= KEYBOARD_EVENT_CAPACITY
    /\ [j \in 1 .. Len(QueueContents) |-> QueueContents[j].symbol] = g_kbdq
    /\ \A j \in 1 .. Len(QueueContents) : QueueContents[j].pressed
    /\ (g_kbd.op = "poll_event" /\ g_kbd.ret) =>
           /\ g_kbd.rec.pending # << >>
           /\ g_kbd.event.symbol = Head(g_kbd.rec.pending)
    /\ (g_kbd.op = "poll_event" /\ ~g_kbd.ret /\ ~g_kbd.event_null) =>
           g_kbd.rec.pending = << >>

\* an event was produced while the queue was full
C12_Witness ==
    /\ g_kbd.op \in {"irq", "poll_char", "poll_event"}
    /\ g_kbd.rec.countBefore = KEYBOARD_EVENT_CAPACITY
    /\ g_kbd.rec.queued # << >>

\* the slots subscribed to Ctrl-C when the last keyboard call began
CtrlCSubscribers ==
    {i \in HandlerIds : /\ g_kbd.rec.subsBefore[i].active
                        /\ g_kbd.rec.subsBefore[i].signal = INTERRUPT_SIGNAL_CTRL_C}

\* the symbol the state machine produced in the last keyboard call (0: none)
ProducedSymbol ==
    IF g_kbd.op = "poll_event" THEN g_kbd.unused
    ELSE IF g_kbd.ret THEN g_kbd.out_char ELSE 0

\* C13: when the scancode state machine produces ETX, the event is queued and
\* then Ctrl-C is raised once, every active Ctrl-C subscriber being invoked
\* exactly once; when it produces another symbol or none, nothing is raised.
C13_EtxRaisesCtrlCOnce ==
    g_kbd.op \in {"irq", "poll_char", "poll_event"} =>
        IF ProducedSymbol = CHAR_ETX
        THEN /\ g_kbd.rec.raises = << <<CHAR_ETX>> >>
             /\ g_kbd.op # "poll_event" =>
                    QueueContents[Len(QueueContents)].symbol = CHAR_ETX
             /\ Len(g_kbd.rec.calls) = Cardinality(CtrlCSubscribers)
             /\ {g_kbd.rec.calls[j].slot : j \in 1 .. Len(g_kbd.rec.calls)} = CtrlCSubscribers
        ELSE /\ g_kbd.rec.raises = << >>
             /\ g_kbd.rec.calls = << >>

\* Ctrl-C was produced with two subscribers
C13_Witness ==
    /\ g_kbd.op \in {"irq", "poll_char"}
    /\ g_kbd.ret
    /\ g_kbd.out_char = CHAR_ETX
    /\ Len(g_kbd.rec.calls) = 2


(***************************************************************************)
(* Claims about process_kill and the pid counter                           *)
(***************************************************************************)
\* the last call was process_kill on a process that was SLEEPING and not current
KilledSleeper ==
    /\ g_proc.op = "kill"
    /\ g_proc.victim.slot \in g_proc.occupiedBefore
    /\ g_proc.victim.state = PROCESS_STATE_SLEEPING
    /\ ~g_proc.victim.current

\* C14: process_kill(pid) on a SLEEPING process that is not the current one
\* returns with the process's stack freed and its slot at pid 0 and state
\* STOPPED, so that process_create finds the slot empty: the next create
\* succeeds, and it takes this very slot when no lower slot is empty.
C14_KillSleeperFreesSlot ==
    KilledSleeper =>
        LET i == g_proc.victim.slot IN
        /\ g_proc.ret
        /\ process_table[i].pid = 0
        /\ process_table[i].state = PROCESS_STATE_STOPPED
        /\ process_table[i].stack = NULL
        /\ g_proc.victim.stack \notin heap
        /\ process_create(ProcState, FALSE, TRUE).ret # -1
        /\ (\A j \in Slots : j < i => ~SlotIsEmpty(process_table[j])) =>
               process_alloc(ProcState, TRUE).slot = i

\* a sleeping process that was not current has been killed and the next create
\* takes its slot
C14_Witness ==
    /\ KilledSleeper
    /\ g_proc.ret
    /\ process_alloc(ProcState, TRUE).slot = g_proc.victim.slot

\* C15: process_kill(pid) returns true exactly when a live process with that pid
\* existed at the call, and that process is then gone; in every other case,
\* pid 0 included, it returns false and changes nothing.
C15_KillTrueIffLiveProcess ==
    g_proc.op = "kill" =>
        /\ g_proc.ret <=> (g_proc.pid # 0 /\ g_proc.victim.slot \in g_proc.occupiedBefore)
        /\ g_proc.ret => process_table[g_proc.victim.slot].pid = 0
        /\ ~g_proc.ret => g_proc.unchanged

RECURSIVE LoggedPathsFrom(_)
LoggedPathsFrom(n) ==
    IF n >= Len(g_fslog) THEN {} ELSE {g_fslog[n + 1].path} \cup LoggedPathsFrom(n + 1)

\* all that has been done to the filesystem since it was formatted: "/a" was
\* made with fs_mkdir, then files were made in it with fs_touch
FreshDirWithFiles ==
    /\ Len(g_fslog) >= 1
    /\ g_fslog[1].op = "mkdir" /\ g_fslog[1].path = PathA
    /\ \A n \in 2 .. Len(g_fslog) :
           g_fslog[n].op = "touch" /\ g_fslog[n].path \in {PathAB, PathAC}

\* the last call was fs_list of "/a" with a callback
ListedDir == g_fsop.op = "list" /\ g_fsop.path = PathA /\ ~g_fsop.cb_null

\* C17: after fs_mkdir of a fresh directory and fs_touch of k files in it, fs_list
\* of the directory returns true and has called the callback exactly k times,
\* once with the name of each file, each time with is_dir false and size 0.
C17_ListCallsBackOncePerFile ==
    FreshDirWithFiles /\ ListedDir =>
        /\ g_fsop.ret
        /\ Len(g_fsop.entries) = Cardinality(LoggedPathsFrom(1))
        /\ {g_fsop.entries[j].name : j \in 1 .. Len(g_fsop.entries)}
               = {luxfs_basename(path) : path \in LoggedPathsFrom(1)}
        /\ \A j \in 1 .. Len(g_fsop.entries) :
               ~g_fsop.entries[j].is_dir /\ g_fsop.entries[j].size = 0

\* two files were made in the directory, their records begin and end inside
\* sectors, and the listing has named both
C17_Witness ==
    /\ FreshDirWithFiles /\ ListedDir
    /\ Cardinality(LoggedPathsFrom(1)) = 2
    /\ RecordSize % ATA_SECTOR_SIZE # 0
    /\ Len(g_fsop.entries) = 2

\* what luxfs_resolve makes of a path in this state
ResolvedNow(path) == luxfs_resolve(FsState(NoFail, NoCrash), path)

\* "/a/b" names a directory
DirABExists ==
    /\ g_fs.mounted
    /\ ResolvedNow(PathAB).ok
    /\ g_fs.inodes[ResolvedNow(PathAB).inode].type = LUXFS_NODE_DIR

\* C18: when /a/b is a directory, "/a/b/../b" resolves, and to the inode "/a/b"
\* resolves to; the parent field of that inode is the inode of "/a", the
\* directory that holds its record.
C18_DotDotResolvesBack ==
    DirABExists =>
        /\ g_fs.inodes[ResolvedNow(PathAB).inode].parent = ResolvedNow(PathA).inode
        /\ ResolvedNow(PathABUpB).ok
        /\ ResolvedNow(PathABUpB).inode = ResolvedNow(PathAB).inode
        /\ g_fsop.op = "stat" /\ g_fsop.path = PathABUpB =>
               /\ g_fsop.resolved.ok
               /\ g_fsop.resolved.inode = ResolvedNow(PathAB).inode

\* fs_stat_path("/a/b/../b") has resolved to the directory /a/b, which is not
\* the root
C18_Witness ==
    /\ DirABExists
    /\ g_fsop.op = "stat" /\ g_fsop.path = PathABUpB /\ g_fsop.ret /\ g_fsop.is_dir
    /\ g_fsop.resolved.inode = ResolvedNow(PathAB).inode
    /\ g_fsop.resolved.inode # g_fs.super.root_inode
    /\ g_fsop.resolved.inode # ResolvedNow(PathA).inode

\* all that has been done to the filesystem since it was formatted:
\* fs_mkdir("/a"), fs_touch("/a/b") and one fs_write to "/a/b" at offset 0,
\* truncate not set
WroteFreshFile ==
    /\ Len(g_fslog) = 3
    /\ g_fslog[1].op = "mkdir" /\ g_fslog[1].path = PathA
    /\ g_fslog[2].op = "touch" /\ g_fslog[2].path = PathAB
    /\ g_fslog[3].op = "write" /\ g_fslog[3].path = PathAB
    /\ g_fslog[3].offset = 0 /\ ~g_fslog[3].truncate

\* the bytes written and their number
WrittenB == g_fslog[3].buffer
WrittenN == Len(g_fslog[3].buffer)

\* C19: after fs_mkdir(d), fs_touch(d/f) and fs_write(d/f, 0, B, n, false) on a
\* fresh filesystem, fs_read(d/f, off, buf, len) returns true with
\* bytes_read = min(len, n - off), 0 when off >= n, and buf holding those bytes
\* of B from off on; fs_stat_path(d/f) returns true with is_dir false and size n.
C19_NestedFileReadsAndStats ==
    WroteFreshFile =>
        /\ g_fsop.op = "read" /\ g_fsop.path = PathAB =>
               /\ g_fsop.ret
               /\ g_fsop.bytes_read = IF g_fsop.offset >= WrittenN THEN 0
                                      ELSE min_u32(g_fsop.length, WrittenN - g_fsop.offset)
               /\ g_fsop.data = SubSeq(WrittenB, g_fsop.offset + 1,
                                       g_fsop.offset + g_fsop.bytes_read)
        /\ g_fsop.op = "stat" /\ g_fsop.path = PathAB /\ ~g_fsop.out_null =>
               /\ g_fsop.ret
               /\ ~g_fsop.is_dir
               /\ g_fsop.size = WrittenN

\* a read from inside a file of more than one sector has been clipped at the
\* end of the file
C19_Witness ==
    /\ WroteFreshFile
    /\ g_fsop.op = "read" /\ g_fsop.path = PathAB
    /\ g_fsop.offset > 0
    /\ g_fsop.offset < WrittenN
    /\ WrittenN > ATA_SECTOR_SIZE
    /\ g_fsop.offset + g_fsop.length > WrittenN
    /\ g_fsop.bytes_read = WrittenN - g_fsop.offset
    /\ g_fsop.data = SubSeq(WrittenB, g_fsop.offset + 1, WrittenN)

\* C20: fs_mount called while the filesystem is mounted returns true, issues no
\* sector transfer and leaves g_fs and the disk as they were.
C20_MountWhenMountedIsNoOp ==
    g_fsop.op = "mount" /\ g_fsop.mounted =>
        /\ g_fsop.ret
        /\ g_fsop.transfers = 0
        /\ g_fsop.unchanged

\* fs_mount has been called on a mounted filesystem that holds a file with data
C20_Witness ==
    /\ g_fsop.op = "mount" /\ g_fsop.mounted /\ g_fsop.ret
    /\ \E i \in InodeIds : g_fs.inodes[i].type = LUXFS_NODE_FILE /\ g_fs.inodes[i].size > 0

(***************************************************************************)
(* Claims about fs_touch, fs_mkdir, fs_read and failing transfers          *)
(***************************************************************************)
\* the state the last fs_touch or fs_mkdir started from, on a working device
PreState ==
    [mounted |-> g_fsop.pre.fs.mounted, super |-> g_fsop.pre.fs.super,
     inodes |-> g_fsop.pre.fs.inodes, inode_bitmap |-> g_fsop.pre.fs.inode_bitmap,
     block_bitmap |-> g_fsop.pre.fs.block_bitmap, disk |-> g_fsop.pre.disk,
     n |-> 0, failAt |-> NoFail, failAlso |-> NoFail, w |-> 0, cut |-> NoCrash]

\* what the path of the last call resolved to, and its parent, when the call began
PreEntry == luxfs_resolve(PreState, g_fsop.path)
PreParent == luxfs_resolve_parent(PreState, g_fsop.path)

\* the last call found the filesystem mounted, nothing at its path, and the
\* parent of the path resolving to a directory
AbsentUnderParent == g_fsop.pre.fs.mounted /\ ~PreEntry.ok /\ PreParent.ok

\* the last call found a free inode, room for one more record in the parent
\* directory, and as many free data blocks as the record needs new ones
RoomForEntry ==
    LET dir == g_fsop.pre.fs.inodes[PreParent.inode]
        fresh == {k \in SlotsTouched(dir.size, RecordSize) :
                      dir.direct[k] = LUXFS_INVALID_BLOCK}
    IN  /\ \E i \in InodeIds : ~g_fsop.pre.fs.inode_bitmap[i]
        /\ dir.size + RecordSize <= MaxFileSize
        /\ Cardinality(fresh)
               <= Cardinality({b \in DataBlockIds : ~g_fsop.pre.fs.block_bitmap[b]})

\* the last call left g_fs and the disk as it found them
LeftUnchanged == g_fs = g_fsop.pre.fs /\ disk = g_fsop.pre.disk

\* the path of the last call now names an empty node of the given type, in an
\* inode that was free, with the directory the call resolved as parent
NowHolds(type) ==
    LET e == luxfs_resolve(FsState(NoFail, NoCrash), g_fsop.path) IN
    /\ e.ok
    /\ ~g_fsop.pre.fs.inode_bitmap[e.inode]
    /\ g_fs.inode_bitmap[e.inode]
    /\ g_fs.inodes[e.inode].type = type
    /\ g_fs.inodes[e.inode].size = 0
    /\ g_fs.inodes[e.inode].parent = PreParent.inode
    /\ \A k \in DirectIds : g_fs.inodes[e.inode].direct[k] = LUXFS_INVALID_BLOCK

\* what fs_touch does where an entry exists: true for a file, false for a
\* directory, nothing changed
TouchOfExisting ==
    g_fsop.op = "touch" /\ g_fsop.pre.fs.mounted /\ PreEntry.ok =>
        /\ g_fsop.ret <=> g_fsop.pre.fs.inodes[PreEntry.inode].type = LUXFS_NODE_FILE
        /\ LeftUnchanged

\* C21 as claimed: fs_touch creates a zero-length file when nothing exists at
\* the path and its parent directory resolves; where an entry exists it returns
\* true for a file and false for a directory and changes nothing.
C21_TouchCreatesOrKeeps ==
    /\ TouchOfExisting
    /\ g_fsop.op = "touch" /\ AbsentUnderParent =>
           g_fsop.ret /\ NowHolds(LUXFS_NODE_FILE)

\* C21 amended: the file is created when, besides, an inode is free and the
\* parent directory has room for the record and the data blocks it needs.
C21_TouchCreatesGivenRoom ==
    /\ TouchOfExisting
    /\ g_fsop.op = "touch" /\ AbsentUnderParent /\ RoomForEntry =>
           g_fsop.ret /\ NowHolds(LUXFS_NODE_FILE)

\* fs_touch has made a file in a directory below the root
C21_Witness ==
    /\ g_fsop.op = "touch" /\ AbsentUnderParent /\ RoomForEntry
    /\ PreParent.inode # g_fs.super.root_inode
    /\ g_fsop.ret /\ NowHolds(LUXFS_NODE_FILE)

\* C22: fs_mkdir returns false and changes nothing when its path resolves to an
\* entry of any type or the parent of the path does not resolve to a directory;
\* otherwise, given a free inode and room, it returns true and the path names an
\* empty directory whose parent field is the resolved parent.
C22_MkdirFailsOrCreates ==
    g_fsop.op = "mkdir" /\ g_fsop.pre.fs.mounted =>
        /\ PreEntry.ok \/ ~PreParent.ok => ~g_fsop.ret /\ LeftUnchanged
        /\ AbsentUnderParent /\ RoomForEntry => g_fsop.ret /\ NowHolds(LUXFS_NODE_DIR)

\* fs_mkdir has made a directory in a directory below the root
C22_Witness ==
    /\ g_fsop.op = "mkdir" /\ AbsentUnderParent /\ RoomForEntry
    /\ PreParent.inode # g_fs.super.root_inode
    /\ g_fsop.ret /\ NowHolds(LUXFS_NODE_DIR)

\* the file the last fs_read was asked to read, as it is now (fs_read changes
\* nothing)
ReadInode == g_fs.inodes[FileOf(g_fsop.path)]

\* the bytes the last fs_read had to read: min(length, size - offset), none from
\* the end of the file on
BytesDue ==
    IF g_fsop.offset >= ReadInode.size THEN 0
    ELSE min_u32(g_fsop.length, ReadInode.size - g_fsop.offset)

\* the range the last fs_read had to read covers a direct slot that holds no
\* block
ReadCoversHole ==
    \E k \in DirectIds :
        /\ ReadInode.direct[k] = LUXFS_INVALID_BLOCK
        /\ k * ATA_SECTOR_SIZE < g_fsop.offset + BytesDue
        /\ (k + 1) * ATA_SECTOR_SIZE > g_fsop.offset
        /\ BytesDue > 0

\* C23: fs_read of a file returns false when the range it has to read covers an
\* unallocated direct slot; when it returns true, bytes_read is
\* min(length, size - offset), never less.
C23_ReadNeverShort ==
    g_fsop.op = "read" /\ FileOf(g_fsop.path) # NULL =>
        /\ ReadCoversHole => ~g_fsop.ret
        /\ g_fsop.ret => g_fsop.bytes_read = BytesDue

\* a sector transfer issued during the last call failed
TransferFailed ==
    /\ g_fsop.op \in {"touch", "mkdir", "list", "stat", "read", "write"}
    /\ g_fsop.failed

\* C24: a call of fs_touch, fs_mkdir, fs_list, fs_stat_path, fs_read or
\* fs_write during which a sector read or write failed returns false.
C24_FailedTransferFailsCall ==
    TransferFailed => ~g_fsop.ret

\* a directory inode of the in-memory table
DirInodes == {i \in InodeIds : g_fs.inodes[i].type = LUXFS_NODE_DIR}

\* the directory inodes of the inode table as the disk holds it
DiskDirSizes ==
    {disk.meta[LUXFS_INODE_TABLE_START + b][i].size :
        <<b, i>> \in {p \in (0 .. LUXFS_INODE_TABLE_BLOCKS - 1) \X InodeIds :
                        /\ p[2] \in InodesOfBlock(p[1])
                        /\ disk.meta[LUXFS_INODE_TABLE_START + p[1]][p[2]].type
                               = LUXFS_NODE_DIR}}

\* C25: in every reachable state, also after a failed or partly executed
\* append, the size of every directory inode, in memory and on the disk, is
\* an exact multiple of the size of a directory record.
C25_DirSizeWholeRecords ==
    /\ \A i \in DirInodes : g_fs.inodes[i].size % RecordSize = 0
    /\ \A size \in DiskDirSizes : size % RecordSize = 0

\* an append that failed after it had written part of a record into the
\* directory's blocks, beside a directory that holds records already
C25_Witness ==
    /\ g_fsop.op \in {"touch", "mkdir"} /\ ~g_fsop.ret
    /\ TransferFailed
    /\ AbsentUnderParent
    /\ \E k \in DirectIds :
           LET block == g_fsop.pre.fs.inodes[PreParent.inode].direct[k]
           IN  /\ block # LUXFS_INVALID_BLOCK
               /\ g_fsop.pre.disk.data[block] # disk.data[block]
    /\ g_fs.inodes[PreParent.inode].size = g_fsop.pre.fs.inodes[PreParent.inode].size

(***************************************************************************)
(* Claims about interrupt_subscribe                                        *)
(***************************************************************************)

\* the slots that were inactive when the last interrupt_subscribe was called
InactiveBefore == {i \in HandlerIds : ~g_intr.before[i].active}

\* the last interrupt_subscribe had a null handler, an invalid signal or a full table
SubscribeRefusable ==
    \/ g_intr.handler = 0
    \/ g_intr.signal >= INTERRUPT_SIGNAL_MAX
    \/ InactiveBefore = {}

\* C26: interrupt_subscribe returns -1 and leaves the table unchanged if and
\* only if the handler is null, the signal is invalid or every slot is
\* active; otherwise it activates the lowest inactive slot with the given
\* signal, handler and context and returns its index.
C26_SubscribeRefusesOrTakesLowest ==
    g_intr.op = "subscribe" =>
        /\ (g_intr.ret = -1) <=> SubscribeRefusable
        /\ SubscribeRefusable => subscriptions = g_intr.before
        /\ ~SubscribeRefusable =>
               /\ g_intr.ret \in InactiveBefore
               /\ \A i \in InactiveBefore : g_intr.ret <= i
               /\ subscriptions =
                      [g_intr.before EXCEPT ![g_intr.ret] =
                          [signal |-> g_intr.signal, handler |-> g_intr.handler,
                           context |-> g_intr.context, active |-> TRUE]]

\* a valid subscription refused because every slot was active
C26_Witness ==
    /\ g_intr.op = "subscribe"
    /\ g_intr.handler # 0 /\ g_intr.signal < INTERRUPT_SIGNAL_MAX
    /\ InactiveBefore = {}
    /\ g_intr.ret = -1
    /\ subscriptions = g_intr.before

(***************************************************************************)
(* Claims about process_exit, the stacks and process_schedule              *)
(***************************************************************************)

\* the last call was process_exit made while a process was current
ExitOfCurrent == g_proc.op = "exit" /\ g_proc.caller # NULL

C28_TickNeverInsideSchedulerCall ==
    cpu.tick_at = PC_IDLE

\* the stacks the PCBs of the table refer to
StacksInTable == {process_table[i].stack : i \in Occupied(process_table)}

\* the stack of the process the last call terminated, NULL when it terminated none
StackOfTerminated ==
    IF g_proc.op = "exit" /\ g_proc.caller # NULL THEN g_proc.stack
    ELSE IF g_proc.op = "kill" /\ g_proc.ret THEN g_proc.victim.stack
    ELSE NULL

RanSchedule == "before" \in DOMAIN g_proc

\* the slots that were live and READY when the last process_schedule was called
ReadyBefore ==
    {i \in Slots : /\ g_proc.before.table[i].pid # 0
                   /\ g_proc.before.table[i].state = PROCESS_STATE_READY}

\* how far slot i lies past the slot after the last-scheduled one, going round
StepsPastLast(i) == (i - (g_proc.before.index + 1)) % MAX_PROCESSES

\* the slots that were live and not STOPPED when the last process_schedule was called
NotStoppedBefore ==
    {i \in Slots : /\ g_proc.before.table[i].pid # 0
                   /\ g_proc.before.table[i].state # PROCESS_STATE_STOPPED}

\* the last process_schedule found its caller RUNNING and current
CurrentRanBefore ==
    /\ g_proc.before.current # NULL
    /\ g_proc.before.table[g_proc.before.current].state = PROCESS_STATE_RUNNING

\* the slot the rule of the specification selects, NULL when it selects none
SelectedByRule ==
    IF ReadyBefore # {}
    THEN CHOOSE s \in ReadyBefore : \A i \in ReadyBefore : StepsPastLast(s) <= StepsPastLast(i)
    ELSE IF CurrentRanBefore \/ NotStoppedBefore = {} THEN NULL
    ELSE MinOf(NotStoppedBefore)

\* C30: process_schedule selects the first live READY slot in circular order
\* from one slot past the last-scheduled index; with no READY slot it keeps a
\* RUNNING current process and otherwise selects the lowest live slot that is
\* not STOPPED; the selected process becomes RUNNING and current, and the
\* context switch is made only when it differs from the current process.
C30_ScheduleSelectsByRule ==
    RanSchedule =>
        IF SelectedByRule = NULL
        THEN /\ process_table = g_proc.before.table
             /\ current_process = g_proc.before.current
             /\ ~g_proc.switched
        ELSE /\ process_table = [g_proc.before.table EXCEPT
                                    ![SelectedByRule].state = PROCESS_STATE_RUNNING]
             /\ current_process = SelectedByRule
             /\ current_process_index = SelectedByRule
             /\ g_proc.switched <=> SelectedByRule # g_proc.before.current

\* a schedule that found no READY slot and its caller not RUNNING, and
\* switched to the lowest live slot that was not STOPPED
C30_Witness ==
    /\ RanSchedule
    /\ ReadyBefore = {} /\ ~CurrentRanBefore
    /\ SelectedByRule # NULL
    /\ g_proc.before.table[SelectedByRule].state = PROCESS_STATE_SLEEPING
    /\ current_process = SelectedByRule
    /\ g_proc.switched

(***************************************************************************)
(* Claims about yielding and about the ticks given to sleepers             *)
(***************************************************************************)

\* the last call was a process_yield of a run that began with every live
\* process READY or the RUNNING current one
InYieldRun == g_proc.op = "yield" /\ g_proc.run.fair

\* the live slot that follows slot i in cyclic slot order (i itself when no
\* other slot is live)
NextLiveAfter(i) ==
    CHOOSE s \in Live(process_table) :
        \A j \in Live(process_table) :
            (s - i - 1) % MAX_PROCESSES <= (j - i - 1) % MAX_PROCESSES

\* C31: while the processes only call process_yield, the live processes run
\* in cyclic slot order: each yield hands the processor to the live slot that
\* follows the yielding one, so that between two turns of a process every
\* other live process runs exactly once.
C31_YieldsRunInCyclicOrder ==
    InYieldRun /\ Live(process_table) # {} =>
        LET picks == g_proc.run.picks
            N     == Cardinality(Live(process_table))
        IN  /\ \A k \in 1 .. Len(picks) - 1 : picks[k + 1] = NextLiveAfter(picks[k])
            /\ Len(picks) >= N =>
                   {picks[k] : k \in (Len(picks) - N + 1) .. Len(picks)} = Live(process_table)
            /\ Len(picks) > N => picks[Len(picks)] = picks[Len(picks) - N]

\* three yields in a row among two live processes: the first one runs again
\* after the second has had its turn
C31_Witness ==
    /\ InYieldRun
    /\ Cardinality(Live(process_table)) = MAX_PROCESSES
    /\ Len(g_proc.run.picks) = MAX_PROCESSES + 1
    /\ g_proc.switched

ByteOf(fs, dsk, i, k) ==
    LET block == fs.inodes[i].direct[k \div ATA_SECTOR_SIZE] IN
    IF block >= LUXFS_DATA_BLOCK_COUNT THEN NULL ELSE dsk.data[block][k % ATA_SECTOR_SIZE]

\* the blocks of inode i, slot by slot (NULL for a slot without a block)
BlocksOf(fs, dsk, i) ==
    [k \in DirectIds |->
        IF fs.inodes[i].direct[k] >= LUXFS_DATA_BLOCK_COUNT THEN NULL
        ELSE dsk.data[fs.inodes[i].direct[k]]]

\* inode i as the device's inode table holds it
InodeOn(dsk, i) == dsk.meta[LUXFS_INODE_TABLE_START + i \div LUXFS_INODES_PER_BLOCK][i]

\* the step is an fs_write with truncate false that returns true
WriteInPlaceStep ==
    /\ g_fscalls' = g_fscalls + 1
    /\ g_fsop'.op = "write" /\ g_fsop'.ret /\ ~g_fsop'.truncate

\* slot is one of the slots the bytes [O, O + n) of a file lie in
SlotWritten(slot, O, n) ==
    n > 0 /\ slot >= O \div ATA_SECTOR_SIZE /\ slot <= (O + n - 1) \div ATA_SECTOR_SIZE

\* what such a step leaves of the file it writes and of every other inode,
\* the bytes outside [O, O + n) included for which the file has a block
WriteInPlaceFrame ==
    LET f == g_fsop'.file
        O == g_fsop'.offset
        n == Len(g_fsop'.buffer)
        old == g_fs.inodes[f].size
    IN
    /\ f # NULL
    /\ g_fs'.inodes[f].size = (IF old > O + n THEN old ELSE O + n)
    /\ g_fs'.inodes[f].type = g_fs.inodes[f].type
    /\ g_fs'.inodes[f].parent = g_fs.inodes[f].parent
    /\ \A k \in 0 .. old - 1 :
          (k < O \/ k >= O + n) /\ ByteOf(g_fs, disk, f, k) # NULL =>
              ByteOf(g_fs', disk', f, k) = ByteOf(g_fs, disk, f, k)
    /\ \A k \in O .. O + n - 1 : ByteOf(g_fs', disk', f, k) = g_fsop'.buffer[k - O + 1]
    /\ \A j \in InodeIds \ {f} :
          /\ g_fs'.inodes[j] = g_fs.inodes[j]
          /\ g_fs'.inode_bitmap[j] = g_fs.inode_bitmap[j]
          /\ InodeOn(disk', j) = InodeOn(disk, j)
          /\ g_fs.inode_bitmap[j] => BlocksOf(g_fs', disk', j) = BlocksOf(g_fs, disk, j)

\* the bytes below the old size for which the file had no block: they come to
\* be 0 in a slot the write fills and stay without a block elsewhere
BlocklessBytesAfter ==
    LET f == g_fsop'.file
        O == g_fsop'.offset
        n == Len(g_fsop'.buffer)
    IN
    \A k \in 0 .. g_fs.inodes[f].size - 1 :
        (k < O \/ k >= O + n) /\ ByteOf(g_fs, disk, f, k) = NULL =>
            ByteOf(g_fs', disk', f, k) =
                (IF SlotWritten(k \div ATA_SECTOR_SIZE, O, n) THEN 0 ELSE NULL)

\* every byte below the old size and outside [O, O + n) is what it was
EveryByteOutsideKept ==
    LET f == g_fsop'.file
        O == g_fsop'.offset
        n == Len(g_fsop'.buffer)
    IN
    \A k \in 0 .. g_fs.inodes[f].size - 1 :
        (k < O \/ k >= O + n) => ByteOf(g_fs', disk', f, k) = ByteOf(g_fs, disk, f, k)

\* C33: an fs_write(path, O, B, n) with truncate false that returns true leaves
\* every byte of the file outside [O, O + n) as it was, makes the size the
\* larger of the old size and O + n, and changes no other file or directory.
C33_WriteInPlaceKeepsTheRest ==
    [][WriteInPlaceStep => WriteInPlaceFrame /\ EveryByteOutsideKept]_vars

\* what holds of every such step: the bytes the file has a block for are left
\* as they were, a byte below the size without a block becomes a 0 when the
\* write fills its slot, the size and every other inode are as claimed
WriteInPlaceKeepsStoredBytes ==
    [][WriteInPlaceStep => WriteInPlaceFrame /\ BlocklessBytesAfter]_vars

\* the records of directory i, as luxfs_dir_iterate hands them to a callback
\* that looks at all of them on a device that works
RecordsOf(i) == luxfs_dir_iterate(FsState(NoFail, NoCrash), i, NullString).visited

\* the live directories of the in-memory table
LiveDirs == {i \in InodeIds : g_fs.inode_bitmap[i] /\ g_fs.inodes[i].type = LUXFS_NODE_DIR}

\* C36: in every reachable state, also when reads or writes of the device fail
\* during fs_touch or fs_mkdir, no directory holds two records with the same
\* name.
C36_NamesUniqueInDirectory ==
    g_fs.mounted =>
        \A i \in LiveDirs :
            \A m, n \in 1 .. Len(RecordsOf(i)) :
                m # n => CStr(Tail(RecordsOf(i)[m])) # CStr(Tail(RecordsOf(i)[n]))

\* the live regular files of the in-memory table
LiveFiles == {i \in InodeIds : g_fs.inode_bitmap[i] /\ g_fs.inodes[i].type = LUXFS_NODE_FILE}

\* the slots the first size bytes of a file lie in
SlotsBelow(size) == {k \in DirectIds : k * ATA_SECTOR_SIZE < size}

\* C37: files have no holes: every direct slot below ceil(size / sector size)
\* of a file inode holds a block, so that reading the whole file returns
\* exactly size bytes.
C37_FilesHaveNoHoles ==
    g_fs.mounted =>
        \A i \in LiveFiles :
            \A k \in SlotsBelow(g_fs.inodes[i].size) :
                g_fs.inodes[i].direct[k] # LUXFS_INVALID_BLOCK

\* the inodes that are not free
LiveInodes == {i \in InodeIds : g_fs.inodes[i].type # LUXFS_NODE_FREE}

\* the directories among them
Directories == {i \in LiveInodes : g_fs.inodes[i].type = LUXFS_NODE_DIR}

\* the records that refer to inode i: pairs of a directory and a position in it
RecordsFor(i) ==
    {p \in Directories \X (1 .. LUXFS_DIRECT_BLOCKS * ATA_SECTOR_SIZE) :
        p[2] <= Len(RecordsOf(p[1])) /\ RecordsOf(p[1])[p[2]][1] = i}

\* C38: the directory tree is well-formed in every reachable state, also after
\* an fs_touch or fs_mkdir that failed part-way: every record refers to an
\* inode that is not free and whose parent field is the directory holding the
\* record, and every inode that is not free, the root apart, is referred to by
\* exactly one record.
C38_TreeWellFormed ==
    g_fs.mounted =>
        /\ \A d \in Directories :
              \A n \in 1 .. Len(RecordsOf(d)) :
                  LET target == RecordsOf(d)[n][1] IN
                  /\ target \in LiveInodes
                  /\ g_fs.inodes[target].parent = d
        /\ \A i \in LiveInodes \ {g_fs.super.root_inode} :
              Cardinality(RecordsFor(i)) = 1

\* the filesystem a reboot finds on the device as it is now
Remounted == Reboot(disk)

\* the inode the path of the last call names after the reboot, NULL if none
RemountedEntry ==
    With(luxfs_resolve(Remounted.s, g_fsop.path), LAMBDA e :
    IF e.ok THEN e.inode ELSE NULL)

\* the last call was an fs_touch, fs_mkdir or fs_write that returned true
CallSucceeded == g_fsop.op \in {"touch", "mkdir", "write"} /\ g_fsop.ret

\* C39: whenever fs_touch, fs_mkdir or fs_write has returned true, a mount of
\* the device by a kernel that has lost all in-memory state finds the entry the
\* call created, and the size and the bytes the call wrote, whatever calls
\* failed before.
C39_SuccessIsDurable ==
    CallSucceeded =>
        /\ Remounted.ok /\ Remounted.s.mounted
        /\ RemountedEntry # NULL
        /\ ResolvedNow(g_fsop.path).ok =>
               Remounted.s.inodes[RemountedEntry].type =
                   g_fs.inodes[ResolvedNow(g_fsop.path).inode].type
        /\ g_fsop.op = "write" =>
               /\ Remounted.s.inodes[RemountedEntry].size = g_fs.inodes[FileOf(g_fsop.path)].size
               /\ With(fs_read(Remounted.s, g_fsop.path, g_fsop.offset, Len(g_fsop.buffer)),
                       LAMBDA r : r.ok /\ r.data = g_fsop.buffer)

(***************************************************************************)
(* Claims about the shell                                                  *)
(***************************************************************************)
\* execute_pipeline is at work
InPipeline == shell.pc \in {SH_START, SH_STAGE}

\* C34: if Ctrl-C is produced while stage i of a pipeline runs,
\* shell_command_should_stop() is true from then until the pipeline ends, no
\* stage after i is started, and the flag is false again when the next command
\* line is read.
C34_CtrlCStopsPipeline ==
    /\ shell.hit # NULL /\ InPipeline => shell_command_should_stop(shell)
    /\ shell.hit # NULL => \A j \in shell.started : j <= shell.hit
    /\ shell.hit # NULL /\ shell.pc = SH_LOOP => shell.cancelled_at = shell.hit
    /\ shell.pc = SH_READ /\ shell.fresh =>
           ~shell_command_should_stop(shell) /\ ~shell.interrupt_announced

\* the next line is being read after a pipeline of two stages was given up
\* after its first for a Ctrl-C
C34_Witness ==
    /\ shell.pc = SH_READ /\ shell.fresh
    /\ shell.cancelled_at = 0 /\ shell.segment_count = MAX_PIPE_SEGMENTS
    /\ ~shell_command_should_stop(shell)

(***************************************************************************)
(* Claims about the dispatcher                                             *)
(***************************************************************************)
\* C35: whatever the sequence of interrupt_dispatcher_init, interrupt_subscribe,
\* interrupt_unsubscribe and interrupt_raise, a subscription whose id was
\* returned (>= 0) and has not been given to interrupt_unsubscribe since is
\* invoked by every later interrupt_raise of its signal: no initialisation,
\* called or made by interrupt_raise itself, loses it.
C35_SubscriptionSurvivesInit ==
    g_intr.op = "raise" /\ g_intr.signal < INTERRUPT_SIGNAL_MAX =>
        \A n \in 1 .. Len(g_intr.order) :
            \E c \in 1 .. Len(g_intr.calls) : g_intr.calls[c].slot = g_intr.order[n]

\* the subscriptions made since the dispatcher was initialised are invoked:
\* on a dispatcher that was ready when interrupt_raise was called, every slot
\* that was active for the signal is called
RaiseOnReadyInvokesActive ==
    g_intr.op = "raise" /\ g_intr.signal < INTERRUPT_SIGNAL_MAX /\ g_intr.readyBefore =>
        \A i \in HandlerIds :
            g_intr.before[i].active /\ g_intr.before[i].signal = g_intr.signal =>
                \E c \in 1 .. Len(g_intr.calls) : g_intr.calls[c].slot = i

\* the number of entries from event_tail up to event_head agrees with event_count
CountMatchesIndices ==
    (keyboard.event_head - keyboard.event_tail + KEYBOARD_EVENT_CAPACITY)
        % KEYBOARD_EVENT_CAPACITY = keyboard.event_count % KEYBOARD_EVENT_CAPACITY

\* C40: when IRQ1 enqueues at any point of a keyboard_poll_event made in normal
\* context the queue stays consistent: event_count never exceeds the capacity
\* and, once the call is over, equals the number of entries between tail and
\* head; the event handed out is the oldest one not yet handed out or dropped,
\* and the queue holds exactly the symbols produced and neither handed out nor
\* dropped as the oldest by an event produced on a full queue.
C40_QueueConsistentUnderIrq ==
    /\ keyboard.event_count <= KEYBOARD_EVENT_CAPACITY
    /\ dequeue.pc \in {DQ_TAIL, DQ_COUNT} => dequeue.event.symbol = dequeue.oldest
    /\ dequeue.pc = DQ_IDLE =>
           /\ CountMatchesIndices
           /\ [j \in 1 .. Len(QueueContents) |-> QueueContents[j].symbol] = g_kbdq
====
